---- MODULE Spec2Model ----
(***************************************************************************)
(* Caching and API-usage-governance layer of the recipe application:       *)
(*   CacheManager      (utils/cacheManager.js)                             *)
(*   APIUsageManager   (utils/apiUsageManager.js)                          *)
(*   RecipeService     (services/recipeService.js)                         *)
(* Time is measured in milliseconds, as Date.now() does.                   *)
(***************************************************************************)
EXTENDS Integers, Sequences, FiniteSets, TLC

VARIABLES
    now,          \* Date.now()
    searchCache,  \* searchCache.cache : the Map, as its entries in insertion order
    recipeCache,  \* recipeCache.cache
    featuredCache,\* featuredCache.cache
    cacheOp,      \* the CacheManager call that returned last, with its result
    keyIn,        \* generateKey: the two parameter objects under comparison
    keyOut,       \* generateKey: the two keys returned for them
    storage,      \* localStorage: the item stored under 'spoonacular_api_usage'
    storageOk,    \* localStorage can be read and written (FALSE: getItem and setItem throw)
    ledgerOp,     \* the APIUsageManager call that returned last, with its result
    apiKeyEnv,    \* import.meta.env.VITE_SPOONACULAR_API_KEY ("" when unset)
    pending,      \* the RecipeService calls awaiting their network response
    netCount,     \* the requests handed to axios so far
    facadeOp,     \* the RecipeService call that settled last, with its outcome
    swPhase,      \* service worker: its place in the install/activate lifecycle
    swCaches,     \* CacheStorage: the namespaces that exist, each with its entries
    swNames,      \* activate handler: the names caches.keys() resolved with
    swPending,    \* the strategy runs awaiting their network response
    swFetches,    \* the fetches the strategies have issued so far
    swOp,         \* the strategy run that settled last, with what respondWith was given
    swMessage,    \* the command the message handler is working on, with its replies
    rankIn,       \* findRecipesByIngredientsAdvanced: the ingredients it was called with
    rankOut       \* findRecipesByIngredientsAdvanced: the scored recipes it returned

cacheVars == <<searchCache, recipeCache, featuredCache, cacheOp>>
keyVars == <<keyIn, keyOut>>
ledgerVars == <<storage, storageOk, ledgerOp>>

facadeVars == <<apiKeyEnv, pending, netCount, facadeOp>>

workerVars == <<swPhase, swCaches, swNames, swPending, swFetches, swOp, swMessage>>

rankVars == <<rankIn, rankOut>>

vars == <<now, cacheVars, keyVars, ledgerVars, facadeVars, workerVars, rankVars>>

RankIdle == rankIn = <<>> /\ rankOut = <<>>

-----------------------------------------------------------------------------
(* Bounds of the model *)

MaxNow == 2          \* the clock of the CacheManager runs stops here
MaxTTL == 1          \* explicit TTLs given to set are 1..MaxTTL
MaxDay == 1          \* the clock of the APIUsageManager runs stops at the start of this day
MaxOver == 2         \* recordCall is followed up to dailyLimit + MaxOver calls a day
MaxOtherCalls == 1   \* calls a day recorded for the endpoint other than /complexSearch
MaxErrors == 1       \* failed calls recorded a day
MaxCached == 1       \* cache hits recorded a day
MaxNet == 2          \* network requests issued by RecipeService
MaxTicks == 1        \* clock advances while RecipeService runs

-----------------------------------------------------------------------------
(* Sequence helpers *)

RECURSIVE SeqSum(_)
SeqSum(s) == IF s = <<>> THEN 0 ELSE Head(s) + SeqSum(Tail(s))

Max(a, b) == IF a >= b THEN a ELSE b

\* String.prototype.includes: needle occurs in hay as a contiguous substring
Includes(hay, needle) ==
    \E i \in 1..(Len(hay) - Len(needle) + 1) :
        SubSeq(hay, i, i + Len(needle) - 1) = needle

-----------------------------------------------------------------------------
(* JavaScript values and JSON.stringify *)

\* a JavaScript value: its type t, with n the number and s the string it holds
Str(x) == [t |-> "string", n |-> 0, s |-> x]
Num(x) == [t |-> "number", n |-> x, s |-> ""]
Bool(b) == [t |-> "boolean", n |-> IF b THEN 1 ELSE 0, s |-> ""]
Undefined == [t |-> "undefined", n |-> 0, s |-> ""]
JsNull == [t |-> "null", n |-> 0, s |-> ""]
NaN == [t |-> "NaN", n |-> 0, s |-> ""]

\* the characters of the model's strings in UTF-16 code unit order
CodeUnits == " \"&',-.0123456789:ABCDEFGHIJKLMNOPQRSTUVWXYZ\\abcdefghijklmnopqrstuvwxyz{}"

CharAt(str, i) == SubSeq(str, i, i)

CodeOf(ch) == CHOOSE i \in 1..Len(CodeUnits) : CharAt(CodeUnits, i) = ch

\* a < b for strings, as Array.prototype.sort without a comparator orders them
RECURSIVE StrLess(_, _)
StrLess(a, b) ==
    IF Len(b) = 0 THEN FALSE
    ELSE IF Len(a) = 0 THEN TRUE
    ELSE IF CharAt(a, 1) = CharAt(b, 1)
         THEN StrLess(SubSeq(a, 2, Len(a)), SubSeq(b, 2, Len(b)))
         ELSE CodeOf(CharAt(a, 1)) < CodeOf(CharAt(b, 1))

\* the characters of a string as JSON writes them inside quotes
RECURSIVE Escape(_)
Escape(str) ==
    IF Len(str) = 0 THEN ""
    ELSE LET c == CharAt(str, 1)
             rest == Escape(SubSeq(str, 2, Len(str)))
         IN IF c = "\"" THEN "\\\"" \o rest
            ELSE IF c = "\\" THEN "\\\\" \o rest
            ELSE c \o rest

\* mutant: quotes and backslashes are written as they are
QuoteRaw(str) == "\"" \o str \o "\""

Quote(str) == "\"" \o Escape(str) \o "\""

\* JSON.stringify of a value that is a property of an object
StringifyValue(v) ==
    CASE v.t = "string" -> Quote(v.s)
      [] v.t = "number" -> ToString(v.n)
      [] v.t = "boolean" -> IF v.n = 1 THEN "true" ELSE "false"
      [] v.t = "null" -> "null"
      [] v.t = "NaN" -> "null"

\* JSON.stringify of an object, given as its properties in insertion order; a
\* property whose value is undefined is left out
RECURSIVE StringifyProps(_, _)
StringifyProps(obj, first) ==
    IF obj = <<>> THEN ""
    ELSE LET p == Head(obj) IN
         IF p.value.t = "undefined" THEN StringifyProps(Tail(obj), first)
         ELSE (IF first THEN "" ELSE ",") \o Quote(p.name) \o ":"
              \o StringifyValue(p.value) \o StringifyProps(Tail(obj), FALSE)

JsonStringify(obj) == "{" \o StringifyProps(obj, TRUE) \o "}"

\* Object.keys(obj)
ObjectKeys(obj) == [i \in 1..Len(obj) |-> obj[i].name]

\* obj[name], undefined when obj has no such property
PropValue(obj, name) ==
    IF \E i \in 1..Len(obj) : obj[i].name = name
    THEN obj[CHOOSE i \in 1..Len(obj) : obj[i].name = name].value
    ELSE Undefined

\* a property of an object literal
Prop(n, v) == [name |-> n, value |-> v]

\* Array.prototype.sort() of distinct strings
SortStrings(names) ==
    [i \in 1..Len(names) |->
        names[CHOOSE j \in 1..Len(names) :
            Cardinality({k \in 1..Len(names) : StrLess(names[k], names[j])}) = i - 1]]

\* mutant: the properties are serialised in the order the caller gave them
GenerateKeyUnsorted(endpoint, params) == endpoint \o ":" \o JsonStringify(params)

\* generateKey(endpoint, params)
GenerateKey(endpoint, params) ==
    LET sorted == SortStrings(ObjectKeys(params))
        sortedParams == [i \in 1..Len(sorted) |->
                            [name |-> sorted[i], value |-> PropValue(params, sorted[i])]]
    IN endpoint \o ":" \o JsonStringify(sortedParams)

-----------------------------------------------------------------------------
(* CacheManager *)

maxCacheSize == 100
defaultTTL == 30 * 60 * 1000

\* the value get returns: null, or the cached data
Null == [null |-> TRUE, data |-> <<>>]
Some(d) == [null |-> FALSE, data |-> d]

\* Map.prototype.get: index of the entry of key in the Map, 0 when absent
MapIndex(cache, key) ==
    IF \E i \in 1..Len(cache) : cache[i].key = key
    THEN CHOOSE i \in 1..Len(cache) : cache[i].key = key
    ELSE 0

MapHas(cache, key) == MapIndex(cache, key) # 0

\* Map.prototype.delete
MapDelete(cache, key) == SelectSeq(cache, LAMBDA e : e.key # key)

\* mutant: set adds an entry even where the key has one
MapSetAppend(cache, item) == Append(cache, item)

\* Map.prototype.set: an existing key keeps its place in the iteration order
MapSet(cache, item) ==
    IF MapHas(cache, item.key)
    THEN [cache EXCEPT ![MapIndex(cache, item.key)] = item]
    ELSE Append(cache, item)

Expired(item, t) == t > item.expiresAt

\* get(key): the returned value
GetResult(cache, key, t) ==
    LET i == MapIndex(cache, key) IN
    IF i = 0 THEN Null
    ELSE IF Expired(cache[i], t) THEN Null
    ELSE Some(cache[i].data)

\* mutant: a get that finds its entry expired deletes every expired entry
GetCacheSweep(cache, key, t) ==
    LET i == MapIndex(cache, key) IN
    IF i = 0 THEN cache
    ELSE IF Expired(cache[i], t) THEN SelectSeq(cache, LAMBDA e : ~Expired(e, t))
    ELSE [cache EXCEPT ![i].lastAccessed = t]

\* get(key): the Map after the call
GetCache(cache, key, t) ==
    LET i == MapIndex(cache, key) IN
    IF i = 0 THEN cache
    ELSE IF Expired(cache[i], t) THEN MapDelete(cache, key)
    ELSE [cache EXCEPT ![i].lastAccessed = t]

\* cleanup, first pass: expired items are deleted
\* mutant: the first pass is skipped
RemoveExpiredNone(cache, t) == cache

RemoveExpired(cache, t) == SelectSeq(cache, LAMBDA e : ~Expired(e, t))

\* Math.floor(this.maxCacheSize * 0.3)
RemoveCount == (maxCacheSize * 3) \div 10

\* position of entry i in the entries sorted by lastAccessed (Array.prototype.sort
\* is stable: equal lastAccessed keep the Map's iteration order)
SortRank(cache, i) ==
    Cardinality({j \in 1..Len(cache) :
        \/ cache[j].lastAccessed < cache[i].lastAccessed
        \/ cache[j].lastAccessed = cache[i].lastAccessed /\ j < i})

\* mutant: the first entries in insertion order are removed
ItemsToRemoveFifo(cache) ==
    {cache[i].key : i \in {j \in 1..Len(cache) : j <= RemoveCount}}

\* sortedEntries.slice(0, Math.floor(this.maxCacheSize * 0.3)): the keys removed
ItemsToRemove(cache) ==
    {cache[i].key : i \in {j \in 1..Len(cache) : SortRank(cache, j) < RemoveCount}}

\* mutant: the second pass is skipped
CleanupNoLru(cache, t) == RemoveExpired(cache, t)

\* cleanup()
Cleanup(cache, t) ==
    LET c1 == RemoveExpired(cache, t) IN
    IF Len(c1) >= maxCacheSize
    THEN LET itemsToRemove == ItemsToRemove(c1)
         IN SelectSeq(c1, LAMBDA e : e.key \notin itemsToRemove)
    ELSE c1

\* the entries the second pass of cleanup removes on a set at time t
LruEvicted(cache, t) ==
    IF Len(cache) >= maxCacheSize
    THEN LET c1 == RemoveExpired(cache, t)
             c2 == Cleanup(cache, t)
             kept == {c2[i].key : i \in 1..Len(c2)}
         IN {e \in {c1[i] : i \in 1..Len(c1)} : e.key \notin kept}
    ELSE {}

CacheItem(key, data, ttl, t) ==
    [key |-> key, data |-> data, expiresAt |-> t + ttl, lastAccessed |-> t,
     createdAt |-> t]

\* mutant: the entry expires one tick early
SetCacheShortTtl(cache, key, data, ttl, t) ==
    MapSet(IF Len(cache) >= maxCacheSize THEN Cleanup(cache, t) ELSE cache,
           CacheItem(key, data, ttl - 1, t))

\* set(key, data, ttl): the Map after the call
SetCache(cache, key, data, ttl, t) ==
    LET c1 == IF Len(cache) >= maxCacheSize THEN Cleanup(cache, t) ELSE cache
    IN MapSet(c1, CacheItem(key, data, ttl, t))

\* invalidatePattern(pattern), for a pattern of literal characters: the keys deleted
KeysToDelete(cache, pattern) ==
    {cache[i].key : i \in {j \in 1..Len(cache) : Includes(cache[j].key, pattern)}}

InvalidateCache(cache, pattern) ==
    LET keysToDelete == KeysToDelete(cache, pattern)
    IN SelectSeq(cache, LAMBDA e : e.key \notin keysToDelete)

-----------------------------------------------------------------------------
(* APIUsageManager *)

dailyLimit == 150
\* 0.8 and 0.95, as exact fractions
warningThreshold == [num |-> 8, den |-> 10]
criticalThreshold == [num |-> 95, den |-> 100]

MsPerHour == 60 * 60 * 1000
MsPerDay == 24 * MsPerHour

\* new Date().toDateString(): the local calendar day, as a day number
ToDateString(t) == t \div MsPerDay

\* the endpoints counted in data.endpoints; a count of 0 stands for a missing property
EndpointNames == {"/complexSearch", "/random"}

\* createNewUsageData()
createNewUsageData(t) ==
    [date |-> ToDateString(t), calls |-> 0, endpoints |-> [e \in EndpointNames |-> 0],
     lastReset |-> t, errors |-> 0, cached |-> 0]

\* the item of localStorage: missing, the JSON text of a record, or text that
\* JSON.parse rejects
NoItem == [kind |-> "none", data |-> createNewUsageData(0)]
Item(data) == [kind |-> "item", data |-> data]
CorruptItem == [kind |-> "corrupt", data |-> createNewUsageData(0)]

\* mutant: the stored record is returned whatever its date
getUsageDataNoRollover(st, ok, t) ==
    IF ok /\ st.kind = "item" THEN st.data ELSE createNewUsageData(t)

\* mutant: the try has no catch; the exception that escapes is written as a record
\* with calls = -1
getUsageDataUncaught(st, ok, t) ==
    IF ~ok \/ st.kind = "corrupt" THEN [createNewUsageData(t) EXCEPT !.calls = -1]
    ELSE IF st.kind = "none" THEN createNewUsageData(t)
    ELSE IF st.data.date # ToDateString(t) THEN createNewUsageData(t)
    ELSE st.data

\* getUsageData()
getUsageData(st, ok, t) ==
    IF ~ok THEN createNewUsageData(t)
    ELSE IF st.kind = "none" THEN createNewUsageData(t)
    ELSE IF st.kind = "corrupt" THEN createNewUsageData(t)
    ELSE IF st.data.date # ToDateString(t) THEN createNewUsageData(t)
    ELSE st.data

\* saveUsageData(data): the item afterwards
saveUsageData(st, ok, data) == IF ok THEN Item(data) ELSE st

\* mutant: a failed call is counted as a call as well
recordCallDataCountsFailure(st, ok, t, endpoint, success) ==
    LET data == getUsageData(st, ok, t) IN
    IF success
    THEN [data EXCEPT !.calls = @ + 1, !.endpoints[endpoint] = @ + 1]
    ELSE [data EXCEPT !.calls = @ + 1, !.errors = @ + 1]

\* mutant: a successful call is not counted under its endpoint
recordCallDataNoEndpoint(st, ok, t, endpoint, success) ==
    LET data == getUsageData(st, ok, t) IN
    IF success
    THEN [data EXCEPT !.calls = @ + 1]
    ELSE [data EXCEPT !.errors = @ + 1]

\* recordCall(endpoint, success): the data returned
recordCallData(st, ok, t, endpoint, success) ==
    LET data == getUsageData(st, ok, t) IN
    IF success
    THEN [data EXCEPT !.calls = @ + 1, !.endpoints[endpoint] = @ + 1]
    ELSE [data EXCEPT !.errors = @ + 1]

\* mutant: the update is made on a new record, not on the one stored
recordCallOnNew(st, ok, t, endpoint, success) ==
    saveUsageData(st, ok,
        IF success
        THEN [createNewUsageData(t) EXCEPT !.calls = @ + 1, !.endpoints[endpoint] = @ + 1]
        ELSE [createNewUsageData(t) EXCEPT !.errors = @ + 1])

\* recordCall(endpoint, success): the item afterwards
recordCall(st, ok, t, endpoint, success) ==
    saveUsageData(st, ok, recordCallData(st, ok, t, endpoint, success))

\* mutant: a cache hit is counted as a call
recordCacheHitDataAsCall(st, ok, t) ==
    [getUsageData(st, ok, t) EXCEPT !.calls = @ + 1]

\* mutant: the hit is counted on a new record
recordCacheHitDataFresh(st, ok, t) ==
    [createNewUsageData(t) EXCEPT !.cached = @ + 1]

\* recordCacheHit(): the data returned
recordCacheHitData(st, ok, t) ==
    [getUsageData(st, ok, t) EXCEPT !.cached = @ + 1]

\* recordCacheHit(): the item afterwards
recordCacheHit(st, ok, t) == saveUsageData(st, ok, recordCacheHitData(st, ok, t))

\* usagePercent = (data.calls / this.dailyLimit) * 100, as an exact fraction
UsagePercent(calls) == [num |-> calls * 100, den |-> dailyLimit]

\* usagePercent >= threshold * 100
AtLeast(usagePercent, threshold) ==
    usagePercent.num * threshold.den >= threshold.num * 100 * usagePercent.den

\* usagePercent > threshold * 100
Above(usagePercent, threshold) ==
    usagePercent.num * threshold.den > threshold.num * 100 * usagePercent.den

\* mutant: the warning threshold is compared with >
getUsageStatusStrict(usagePercent) ==
    IF AtLeast(usagePercent, criticalThreshold) THEN "critical"
    ELSE IF Above(usagePercent, warningThreshold) THEN "warning"
    ELSE "normal"

\* getUsageStatus(usagePercent)
getUsageStatus(usagePercent) ==
    IF AtLeast(usagePercent, criticalThreshold) THEN "critical"
    ELSE IF AtLeast(usagePercent, warningThreshold) THEN "warning"
    ELSE "normal"

\* Math.round(x * 100) / 100 for x = num / den >= 0, in hundredths
RoundHundredths(x) == (2 * x.num * 100 + x.den) \div (2 * x.den)

\* getUsageStats()
getUsageStats(st, ok, t) ==
    LET data == getUsageData(st, ok, t)
        usagePercent == UsagePercent(data.calls)
    IN [calls |-> data.calls,
        remaining |-> Max(0, dailyLimit - data.calls),
        limit |-> dailyLimit,
        usagePercent |-> RoundHundredths(usagePercent),
        date |-> data.date,
        endpoints |-> data.endpoints,
        errors |-> data.errors,
        cached |-> data.cached,
        status |-> getUsageStatus(usagePercent),
        canMakeCall |-> data.calls < dailyLimit]

\* mutant: the limit is not looked at
canMakeCallAlways(st, ok, t) == getUsageData(st, ok, t).calls >= 0

\* mutant: the limit itself may still be called
canMakeCallInclusive(st, ok, t) == getUsageData(st, ok, t).calls <= dailyLimit

\* canMakeCall()
canMakeCall(st, ok, t) == getUsageData(st, ok, t).calls < dailyLimit

\* resetUsage(): the item afterwards
resetUsage(st, ok, t) == saveUsageData(st, ok, createNewUsageData(t))

\* Math.round(num / den) for num >= 0 and den > 0
Round(num, den) == (2 * num + den) \div (2 * den)

RECURSIVE GCD(_, _)
GCD(a, b) == IF b = 0 THEN a ELSE GCD(b, a % b)

\* Math.round(a * b / den), the fraction b / den reduced first
RoundProduct(a, b, den) ==
    LET g == GCD(b, den) IN Round(a * (b \div g), den \div g)

\* getUsageTrends(); callsPerHour is held in hundredths
getUsageTrends(st, ok, t) ==
    LET data == getUsageData(st, ok, t)
        sinceReset == t - data.lastReset
    IN [callsPerHour |-> IF sinceReset > 0
                         THEN RoundProduct(data.calls, MsPerHour * 100, sinceReset) ELSE 0,
        projectedDailyUsage |-> IF sinceReset > 0
                                THEN RoundProduct(data.calls, MsPerHour * 24, sinceReset) ELSE 0,
        cacheEfficiency |-> IF data.calls + data.cached > 0
                            THEN Round(data.cached * 100, data.calls + data.cached)
                            ELSE 0]

-----------------------------------------------------------------------------
(* RecipeService *)

Placeholder == "YOUR_SPOONACULAR_API_KEY"

\* const API_KEY = import.meta.env.VITE_SPOONACULAR_API_KEY || 'YOUR_SPOONACULAR_API_KEY'
API_KEY(env) == IF env = "" THEN Placeholder ELSE env

\* mutant: the length of the key is not looked at
isApiConfiguredNoLength(env) ==
    API_KEY(env) # "" /\ API_KEY(env) # Placeholder

\* isApiConfigured()
isApiConfigured(env) ==
    API_KEY(env) # "" /\ API_KEY(env) # Placeholder /\ Len(API_KEY(env)) > 10

\* CACHE_TTL, in milliseconds
CACHE_TTL ==
    [SEARCH_RESULTS |-> 15 * 60 * 1000,
     RECIPE_DETAILS |-> 60 * 60 * 1000,
     FEATURED |-> 30 * 60 * 1000,
     RANDOM |-> 10 * 60 * 1000,
     CATEGORY |-> 20 * 60 * 1000]

ConfigError ==
    "API key not configured. Please add your Spoonacular API key to use this feature."

\* the message of the error axios rejects with; status 0 stands for no response
ErrorMessage(status) ==
    IF status = 0 THEN "Network Error"
    ELSE "Request failed with status code " \o ToString(status)

\* how a promise returned by RecipeService settles
Resolved(value) == [kind |-> "resolved", value |-> value, error |-> ""]
\* mutant: the error is swallowed and an empty list returned
RejectedAsEmpty(error) == [kind |-> "resolved", value |-> <<>>, error |-> ""]

Rejected(error) == [kind |-> "rejected", value |-> <<>>, error |-> error]

\* the recipes of getLocalRecipes, with the fields its filters read
recipeDatabase == <<
    [id |-> 1, title |-> "Paneer Butter Masala",
     summary |-> "Rich and creamy tomato-based curry with soft paneer cubes, perfect with naan or rice.",
     category |-> "Main Course - Vegetarian", vegetarian |-> TRUE],
    [id |-> 2, title |-> "Palak Paneer",
     summary |-> "Creamy spinach curry with paneer cubes, packed with iron and flavor.",
     category |-> "Main Course - Vegetarian", vegetarian |-> TRUE],
    [id |-> 3, title |-> "Dal Makhani",
     summary |-> "Slow-cooked black lentils in rich, creamy tomato gravy - a North Indian classic.",
     category |-> "Main Course - Vegetarian", vegetarian |-> TRUE],
    [id |-> 4, title |-> "Veg Biryani",
     summary |-> "Aromatic basmati rice layered with spiced vegetables and herbs.",
     category |-> "Main Course - Vegetarian", vegetarian |-> TRUE],
    [id |-> 5, title |-> "Chana Masala",
     summary |-> "Spiced chickpea curry in tomato and onion gravy, a popular North Indian dish.",
     category |-> "Main Course - Vegetarian", vegetarian |-> TRUE],
    [id |-> 6, title |-> "Rajma",
     summary |-> "Kidney beans cooked in spiced tomato gravy, perfect with rice.",
     category |-> "Main Course - Vegetarian", vegetarian |-> TRUE],
    [id |-> 7, title |-> "Baingan Bharta",
     summary |-> "Smoky roasted eggplant cooked with onions, tomatoes, and spices.",
     category |-> "Main Course - Vegetarian", vegetarian |-> TRUE],
    [id |-> 8, title |-> "Aloo Gobi",
     summary |-> "Dry curry of potatoes and cauliflower with aromatic spices.",
     category |-> "Main Course - Vegetarian", vegetarian |-> TRUE],
    [id |-> 9, title |-> "Kadai Paneer",
     summary |-> "Paneer cooked with bell peppers and onions in spicy tomato gravy.",
     category |-> "Main Course - Vegetarian", vegetarian |-> TRUE],
    [id |-> 10, title |-> "Malai Kofta",
     summary |-> "Deep-fried cottage cheese and potato balls in rich creamy tomato gravy.",
     category |-> "Main Course - Vegetarian", vegetarian |-> TRUE],
    [id |-> 61, title |-> "Classic Margherita Pizza",
     summary |-> "Traditional Italian pizza with fresh mozzarella, tomatoes, and basil.",
     category |-> "Main Course", vegetarian |-> TRUE],
    [id |-> 62, title |-> "Spaghetti Carbonara",
     summary |-> "Creamy Italian pasta with eggs, cheese, and pancetta.",
     category |-> "Main Course", vegetarian |-> FALSE],
    [id |-> 63, title |-> "Chicken Stir Fry",
     summary |-> "Quick and healthy stir-fried chicken with mixed vegetables.",
     category |-> "Main Course", vegetarian |-> FALSE],
    [id |-> 64, title |-> "Caesar Salad",
     summary |-> "Fresh romaine lettuce with parmesan cheese and classic caesar dressing.",
     category |-> "Appetizer", vegetarian |-> TRUE],
    [id |-> 65, title |-> "Chocolate Chip Cookies",
     summary |-> "Classic homemade chocolate chip cookies, crispy outside and chewy inside.",
     category |-> "Dessert", vegetarian |-> TRUE],
    [id |-> 11, title |-> "Chicken Biryani",
     summary |-> "Fragrant basmati rice layered with marinated chicken and aromatic spices.",
     category |-> "Main Course - Non-Vegetarian", vegetarian |-> FALSE],
    [id |-> 12, title |-> "Butter Chicken",
     summary |-> "Tender chicken in rich, creamy tomato-based sauce with butter and cream.",
     category |-> "Main Course - Non-Vegetarian", vegetarian |-> FALSE],
    [id |-> 13, title |-> "Chicken Tikka Masala",
     summary |-> "Grilled chicken tikka in spiced curry sauce with onions and peppers.",
     category |-> "Main Course - Non-Vegetarian", vegetarian |-> FALSE],
    [id |-> 14, title |-> "Rogan Josh",
     summary |-> "Aromatic Kashmiri mutton curry with rich red gravy and traditional spices.",
     category |-> "Main Course - Non-Vegetarian", vegetarian |-> FALSE],
    [id |-> 15, title |-> "Chicken Curry",
     summary |-> "Traditional chicken curry with onions, tomatoes, and aromatic spices.",
     category |-> "Main Course - Non-Vegetarian", vegetarian |-> FALSE],
    [id |-> 16, title |-> "Fish Curry",
     summary |-> "Fresh fish cooked in coconut milk and spices, a coastal Indian delicacy.",
     category |-> "Main Course - Non-Vegetarian", vegetarian |-> FALSE],
    [id |-> 17, title |-> "Mutton Biryani",
     summary |-> "Royal mutton biryani with aromatic basmati rice and tender meat pieces.",
     category |-> "Main Course - Non-Vegetarian", vegetarian |-> FALSE],
    [id |-> 18, title |-> "Chicken Korma",
     summary |-> "Mild and creamy chicken curry with yogurt, nuts, and aromatic spices.",
     category |-> "Main Course - Non-Vegetarian", vegetarian |-> FALSE],
    [id |-> 19, title |-> "Tandoori Chicken",
     summary |-> "Marinated chicken roasted in tandoor oven with yogurt and spices.",
     category |-> "Main Course - Non-Vegetarian", vegetarian |-> FALSE],
    [id |-> 20, title |-> "Keema Curry",
     summary |-> "Spiced minced meat curry with peas and aromatic Indian spices.",
     category |-> "Main Course - Non-Vegetarian", vegetarian |-> FALSE],
    [id |-> 21, title |-> "Pani Puri",
     summary |-> "Crispy hollow puris filled with spicy, tangy water and chutneys.",
     category |-> "Street Food & Snacks", vegetarian |-> TRUE],
    [id |-> 22, title |-> "Pav Bhaji",
     summary |-> "Thick vegetable curry served with buttered bread rolls - Mumbai street food favorite.",
     category |-> "Street Food & Snacks", vegetarian |-> TRUE],
    [id |-> 23, title |-> "Samosa",
     summary |-> "Crispy triangular pastries stuffed with spiced potatoes and peas.",
     category |-> "Street Food & Snacks", vegetarian |-> TRUE],
    [id |-> 24, title |-> "Dhokla",
     summary |-> "Steamed savory cake made from fermented gram flour batter - Gujarati specialty.",
     category |-> "Street Food & Snacks", vegetarian |-> TRUE],
    [id |-> 25, title |-> "Chaat",
     summary |-> "Mixed street food snack with chutneys, yogurt, and crispy sev.",
     category |-> "Street Food & Snacks", vegetarian |-> TRUE],
    [id |-> 26, title |-> "Vada Pav",
     summary |-> "Deep-fried potato dumpling served in bread bun with chutneys - Mumbai's burger.",
     category |-> "Street Food & Snacks", vegetarian |-> TRUE],
    [id |-> 27, title |-> "Bhel Puri",
     summary |-> "Crunchy puffed rice mixed with vegetables, chutneys, and sev.",
     category |-> "Street Food & Snacks", vegetarian |-> TRUE],
    [id |-> 28, title |-> "Dahi Puri",
     summary |-> "Crispy puris topped with yogurt, chutneys, and spiced water.",
     category |-> "Street Food & Snacks", vegetarian |-> TRUE],
    [id |-> 29, title |-> "Aloo Tikki",
     summary |-> "Crispy potato patties served with chutneys and yogurt.",
     category |-> "Street Food & Snacks", vegetarian |-> TRUE],
    [id |-> 30, title |-> "Kachori",
     summary |-> "Deep-fried bread stuffed with spiced lentils or onions.",
     category |-> "Street Food & Snacks", vegetarian |-> TRUE],
    [id |-> 31, title |-> "Garlic Naan",
     summary |-> "Soft, pillowy bread topped with garlic and cilantro, baked in tandoor.",
     category |-> "Breads & Rice", vegetarian |-> TRUE],
    [id |-> 32, title |-> "Aloo Paratha",
     summary |-> "Stuffed flatbread with spiced potato filling, served with butter and yogurt.",
     category |-> "Breads & Rice", vegetarian |-> TRUE],
    [id |-> 33, title |-> "Jeera Rice",
     summary |-> "Fragrant basmati rice tempered with cumin seeds and ghee.",
     category |-> "Breads & Rice", vegetarian |-> TRUE],
    [id |-> 34, title |-> "Butter Naan",
     summary |-> "Classic tandoor bread brushed with butter, perfect with curries.",
     category |-> "Breads & Rice", vegetarian |-> TRUE],
    [id |-> 35, title |-> "Roti",
     summary |-> "Traditional whole wheat flatbread, a staple of Indian cuisine.",
     category |-> "Breads & Rice", vegetarian |-> TRUE],
    [id |-> 36, title |-> "Pulao",
     summary |-> "Aromatic rice dish cooked with whole spices and vegetables.",
     category |-> "Breads & Rice", vegetarian |-> TRUE],
    [id |-> 37, title |-> "Lemon Rice",
     summary |-> "Tangy South Indian rice dish with lemon juice and curry leaves.",
     category |-> "Breads & Rice", vegetarian |-> TRUE],
    [id |-> 38, title |-> "Stuffed Kulcha",
     summary |-> "Leavened bread stuffed with spiced onions or paneer.",
     category |-> "Breads & Rice", vegetarian |-> TRUE],
    [id |-> 39, title |-> "Coconut Rice",
     summary |-> "Fragrant rice cooked with coconut milk and South Indian spices.",
     category |-> "Breads & Rice", vegetarian |-> TRUE],
    [id |-> 40, title |-> "Chapati",
     summary |-> "Thin unleavened flatbread made from whole wheat flour.",
     category |-> "Breads & Rice", vegetarian |-> TRUE],
    [id |-> 41, title |-> "Gulab Jamun",
     summary |-> "Deep-fried milk dumplings soaked in rose-flavored sugar syrup.",
     category |-> "Desserts & Sweets", vegetarian |-> TRUE],
    [id |-> 42, title |-> "Kheer",
     summary |-> "Creamy rice pudding flavored with cardamom, nuts, and saffron.",
     category |-> "Desserts & Sweets", vegetarian |-> TRUE],
    [id |-> 43, title |-> "Jalebi",
     summary |-> "Spiral-shaped deep-fried sweet soaked in saffron sugar syrup.",
     category |-> "Desserts & Sweets", vegetarian |-> TRUE],
    [id |-> 44, title |-> "Rasgulla",
     summary |-> "Spongy cottage cheese balls cooked in light sugar syrup.",
     category |-> "Desserts & Sweets", vegetarian |-> TRUE],
    [id |-> 45, title |-> "Kulfi",
     summary |-> "Traditional Indian ice cream made with reduced milk and cardamom.",
     category |-> "Desserts & Sweets", vegetarian |-> TRUE],
    [id |-> 46, title |-> "Laddu",
     summary |-> "Sweet ball-shaped treats made from flour, ghee, and sugar.",
     category |-> "Desserts & Sweets", vegetarian |-> TRUE],
    [id |-> 47, title |-> "Halwa",
     summary |-> "Dense sweet made from semolina, ghee, sugar, and nuts.",
     category |-> "Desserts & Sweets", vegetarian |-> TRUE],
    [id |-> 48, title |-> "Barfi",
     summary |-> "Diamond-shaped milk fudge sweet flavored with cardamom and nuts.",
     category |-> "Desserts & Sweets", vegetarian |-> TRUE],
    [id |-> 49, title |-> "Payasam",
     summary |-> "South Indian sweet pudding made with vermicelli and milk.",
     category |-> "Desserts & Sweets", vegetarian |-> TRUE],
    [id |-> 50, title |-> "Mysore Pak",
     summary |-> "Traditional Karnataka sweet made from gram flour, ghee, and sugar.",
     category |-> "Desserts & Sweets", vegetarian |-> TRUE]
>>

UpperCase == "ABCDEFGHIJKLMNOPQRSTUVWXYZ"
LowerCase == "abcdefghijklmnopqrstuvwxyz"

LowerChar(ch) ==
    IF \E i \in 1..Len(UpperCase) : CharAt(UpperCase, i) = ch
    THEN CharAt(LowerCase, CHOOSE i \in 1..Len(UpperCase) : CharAt(UpperCase, i) = ch)
    ELSE ch

\* String.prototype.toLowerCase, as the sequence of the characters of the result
ToLowerCase(str) == [i \in 1..Len(str) |-> LowerChar(CharAt(str, i))]

\* truthiness of a JavaScript value
Truthy(v) ==
    CASE v.t = "string" -> v.s # ""
      [] v.t = "number" -> v.n # 0
      [] v.t = "boolean" -> v.n = 1
      [] OTHER -> FALSE

\* getLocalRecipes(query, options): the recipes returned
getLocalRecipes(query, options) ==
    LET q == ToLowerCase(query)
        category == PropValue(options, "category")
        vegetarian == PropValue(options, "vegetarian")
        byQuery ==
            IF query # "" /\ query # "random" /\ query # "similar"
            THEN SelectSeq(recipeDatabase, LAMBDA recipe :
                     \/ Includes(ToLowerCase(recipe.title), q)
                     \/ Includes(ToLowerCase(recipe.summary), q))
            ELSE recipeDatabase
        byCategory ==
            IF Truthy(category) /\ category # Str("all")
            THEN SelectSeq(byQuery, LAMBDA recipe : Str(recipe.category) = category)
            ELSE byQuery
    IN IF vegetarian # JsNull /\ vegetarian # Undefined
       THEN SelectSeq(byCategory, LAMBDA recipe : Bool(recipe.vegetarian) = vegetarian)
       ELSE byCategory

\* a list of recipes is held as the list of their ids
Ids(recipes) == [i \in 1..Len(recipes) |-> recipes[i].id]

\* the arguments searchRecipes is called with
Queries == {"chicken", "rice", "pasta"}
OptionSets == {<<>>, <<Prop("number", Num(5))>>, <<Prop("vegetarian", Bool(TRUE))>>}
SearchArgs ==
    {<<"chicken", <<>> >>, <<"rice", <<>> >>, <<"pasta", <<Prop("number", Num(5))>> >>,
     <<"chicken", <<Prop("vegetarian", Bool(TRUE))>> >>}

\* getLocalRecipes for the arguments of the model, computed once
LocalTable ==
    {<<query, options, Ids(getLocalRecipes(query, options))>> :
        query \in Queries, options \in OptionSets}

LocalRecipes(query, options) ==
    (CHOOSE row \in LocalTable : row[1] = query /\ row[2] = options)[3]

\* searchCache.generateKey('complexSearch', { query, ...options })
SearchKey(query, options) ==
    GenerateKey("complexSearch", <<Prop("query", Str(query))>> \o options)

\* the keys for the arguments of the model, computed once
SearchKeyTable ==
    {<<query, options, SearchKey(query, options)>> :
        query \in Queries, options \in OptionSets}

SearchKeys(query, options) ==
    (CHOOSE row \in SearchKeyTable : row[1] = query /\ row[2] = options)[3]

\* the responses of the network to GET /complexSearch: a body with results, a body
\* without, or an error with its HTTP status (0: no response)
Ok(results) == [kind |-> "ok", defined |-> TRUE, results |-> results, status |-> 200]
OkUndefined == [kind |-> "ok", defined |-> FALSE, results |-> <<>>, status |-> 200]
Err(status) == [kind |-> "error", defined |-> FALSE, results |-> <<>>, status |-> status]

Outcomes == {Ok(<<716429>>), Ok(<<>>), OkUndefined, Err(402), Err(429), Err(500), Err(0)}

\* response.data.results || [] and its like
OrEmpty(outcome) == IF outcome.defined THEN outcome.results ELSE <<>>

Slots == {1, 2}

\* a call of RecipeService: where it stands, its arguments, and whether it started
\* on an unused ledger and an empty search cache (fresh) with no other call
\* started or pending since (alone)
IdleCall == [pc |-> "idle", op |-> "", query |-> "", options |-> <<>>, key |-> "",
             fresh |-> FALSE, alone |-> FALSE]

NoFacadeOp == [name |-> "none", key |-> "", path |-> "", result |-> Resolved(<<>>),
               first |-> FALSE, at |-> 0]

FacadeIdle ==
    /\ apiKeyEnv = ""
    /\ pending = [s \in Slots |-> IdleCall]
    /\ netCount = 0
    /\ facadeOp = NoFacadeOp

-----------------------------------------------------------------------------
(* Service worker: cache names, requests, responses *)
CACHE_NAME == "recipe-finder-v2.0.0"
RECIPES_CACHE == "recipes-cache-v1"
IMAGES_CACHE == "images-cache-v1"
API_CACHE == "api-cache-v1"

\* the names the activate handler keeps
KnownCaches == {CACHE_NAME, RECIPES_CACHE, IMAGES_CACHE, API_CACHE}

\* the host the worker is served from, and the URL of a path on a host
Origin == "recipe-finder.app"

UrlOf(hostname, pathname) == "https://" \o hostname \o pathname

urlsToCache == <<"/", "/index.html", "/manifest.json", "/static/js/", "/static/css/",
                 "/favicon.ico">>

recipePatterns == {"/recipe/", "/search", "/favorites", "/surprise"}

apiPatterns == {"api.spoonacular.com", "images.unsplash.com"}

\* patterns.some(pattern => pattern.test(str)), for patterns without metacharacters
SomeTest(patterns, str) == \E pattern \in patterns : Includes(str, pattern)

ImageExtensions == {"jpg", "jpeg", "png", "gif", "webp", "svg"}

\* pathname.match(/\.(jpg|jpeg|png|gif|webp|svg)$/i)
MatchesImageExtension(pathname) ==
    \E ext \in ImageExtensions :
        /\ Len(pathname) > Len(ext)
        /\ CharAt(pathname, Len(pathname) - Len(ext)) = "."
        /\ \A i \in 1..Len(ext) :
               LowerChar(CharAt(pathname, Len(pathname) - Len(ext) + i)) = CharAt(ext, i)

Request(method, destination, hostname, pathname) ==
    [method |-> method, destination |-> destination, hostname |-> hostname,
     pathname |-> pathname]

\* request.url, the key of a GET request in a Cache
Url(request) == UrlOf(request.hostname, request.pathname)

\* a response: its status, its Content-Type when the worker made it, the version of the
\* content the server sent, and the offline property of a JSON payload
ServerResponse(status, body) ==
    [status |-> status, contentType |-> "", body |-> body, offline |-> FALSE]

\* new Response(svg, {headers: {'Content-Type': 'image/svg+xml'}})
PlaceholderImage ==
    [status |-> 200, contentType |-> "image/svg+xml", body |-> 0, offline |-> FALSE]

\* new Response(JSON.stringify({error, message, offline: true}), {status: 503, ...})
OfflineResponse ==
    [status |-> 503, contentType |-> "application/json", body |-> 0, offline |-> TRUE]

\* Response.ok
IsOk(response) == response.status >= 200 /\ response.status <= 299

\* what a strategy's promise settles with
Fulfilled(response) == [settled |-> "fulfilled", null |-> FALSE, response |-> response]

FulfilledNull == [settled |-> "fulfilled", null |-> TRUE, response |-> ServerResponse(0, 0)]

Thrown == [settled |-> "rejected", null |-> FALSE, response |-> ServerResponse(0, 0)]

PlaceholderFor(request) ==
    IF request.destination = "image" THEN Fulfilled(PlaceholderImage) ELSE Thrown

\* the fetch handler's choice of strategy and namespace
Route(request) ==
    IF request.method # "GET"
    THEN [strategy |-> "none", cacheName |-> ""]
    ELSE IF request.destination = "image" \/ MatchesImageExtension(request.pathname)
    THEN [strategy |-> "cacheFirst", cacheName |-> IMAGES_CACHE]
    ELSE IF SomeTest(apiPatterns, request.hostname \o request.pathname)
    THEN [strategy |-> "networkFirst", cacheName |-> API_CACHE]
    ELSE IF SomeTest(recipePatterns, request.pathname)
    THEN [strategy |-> "cacheFirst", cacheName |-> RECIPES_CACHE]
    ELSE [strategy |-> "staleWhileRevalidate", cacheName |-> CACHE_NAME]

\* CacheStorage and Cache, as functions: name -> (url -> response)
NoEntries == [url \in {} |-> OfflineResponse]

CachesHas(caches, cacheName) == cacheName \in DOMAIN caches

\* caches.open(cacheName): the namespace is created when it does not exist
CachesOpen(caches, cacheName) ==
    IF CachesHas(caches, cacheName) THEN caches
    ELSE [name \in DOMAIN caches \cup {cacheName} |->
            IF name = cacheName THEN NoEntries ELSE caches[name]]

\* caches.delete(cacheName), for every name of a set
CachesDelete(caches, names) == [name \in DOMAIN caches \ names |-> caches[name]]

\* cache.match(request): whether an entry exists, and the entry
Matches(caches, cacheName, request) ==
    CachesHas(caches, cacheName) /\ Url(request) \in DOMAIN caches[cacheName]

Matched(caches, cacheName, request) == caches[cacheName][Url(request)]

\* cache.put(url, response) on the Cache that caches.open(cacheName) resolved with; a
\* Cache whose namespace was deleted meanwhile is no longer reachable from caches
CachePut(caches, cacheName, url, response) ==
    IF ~CachesHas(caches, cacheName) THEN caches
    ELSE [caches EXCEPT ![cacheName] =
            [u \in DOMAIN caches[cacheName] \cup {url} |->
                IF u = url THEN response ELSE caches[cacheName][u]]]

\* the recipes of the CACHE_RECIPE commands: one with an image, one without
Recipe(id, image) == [id |-> id, image |-> image]

Recipes == {Recipe(716429, UrlOf("images.unsplash.com", "/photo-1631452180519")),
            Recipe(63, "")}

\* what the handler posts on the port of a command: {success: true}, or the counts
Success == [success |-> TRUE, info |-> [name \in {} |-> 0]]

Info(counts) == [success |-> FALSE, info |-> counts]

\* the command the message handler is working on: where its helper stands, the names
\* caches.keys() resolved with, the messages posted on its port, and the number of
\* commands received so far
NoMessage == [pc |-> "idle", type |-> "", recipe |-> Recipe(0, ""), names |-> {},
              replies |-> 0, reply |-> Success, received |-> 0]

WorkerSlots == {1, 2}

IdleRun == [pc |-> "idle", strategy |-> "none", cacheName |-> "",
            request |-> Request("", "", "", "")]

NoWorkerOp == [name |-> "none", request |-> Request("", "", "", ""), cacheName |-> "",
               source |-> "", result |-> Thrown]

WorkerIdle ==
    /\ swPhase = "none"
    /\ swCaches = [name \in {} |-> NoEntries]
    /\ swNames = {}
    /\ swPending = [s \in WorkerSlots |-> IdleRun]
    /\ swFetches = 0
    /\ swOp = NoWorkerOp
    /\ swMessage = NoMessage

-----------------------------------------------------------------------------
(* CacheManager: the calls, on the searchCache instance *)

CacheKey(i) == "k" \o ToString(i)

\* SpecCache: the calls on a cache that starts empty
ActiveKeys == {CacheKey(1), CacheKey(2)}
Values == {<<1>>, <<2>>}
TTLInputs == 1..MaxTTL
Patterns == {CacheKey(1), CacheKey(maxCacheSize + 1)}

\* SpecCacheFull: the calls on a cache that starts one below capacity or at capacity;
\* they use a pre-populated key and a new one
FullKeys == {CacheKey(1), CacheKey(maxCacheSize + 1)}
FullValues == {<<2>>}
FullTTLs == {1}
FullPatterns == {CacheKey(1)}
PrefillSizes == {maxCacheSize - 1, maxCacheSize}

\* record of a call: its name and arguments, what it returned (ret, count), the
\* entries the second pass of cleanup removed (evicted), and whether the call before
\* it was a set of the same key (afterSet)
NoOp == [name |-> "none", key |-> "", data |-> <<>>, expiresAt |-> 0,
         ret |-> Null, count |-> 0, evicted |-> {}, afterSet |-> FALSE]

\* the Map after set(CacheKey(i), <<1>>, ttl) for i = 1..n in turn at time 0 on an
\* empty cache, the TTLs alternating between tOdd and tEven (n <= maxCacheSize, so
\* that no set finds the Map full)
Prefill(n, tOdd, tEven) ==
    [i \in 1..n |-> CacheItem(CacheKey(i), <<1>>, IF i % 2 = 1 THEN tOdd ELSE tEven, 0)]

\* the record of an APIUsageManager call: its name and arguments, and what it returned
NoLedgerOp == [name |-> "none", endpoint |-> "", success |-> FALSE,
               data |-> createNewUsageData(0), can |-> FALSE,
               stats |-> getUsageStats(NoItem, TRUE, 0),
               trends |-> getUsageTrends(NoItem, TRUE, 0)]

KeyIdle == keyIn = <<>> /\ keyOut = <<>>

LedgerIdle == storage = NoItem /\ storageOk = TRUE /\ ledgerOp = NoLedgerOp

OtherCachesIdle ==
    /\ recipeCache = <<>>
    /\ featuredCache = <<>>
    /\ KeyIdle
    /\ LedgerIdle
    /\ FacadeIdle
    /\ WorkerIdle
    /\ RankIdle

InitCache ==
    /\ now = 0
    /\ searchCache = <<>>
    /\ cacheOp = NoOp
    /\ OtherCachesIdle

InitCacheFull ==
    /\ now = 0
    /\ \E n \in PrefillSizes : \E tOdd \in FullTTLs \cup {defaultTTL} :
           searchCache = Prefill(n, tOdd, defaultTTL)
    /\ cacheOp = NoOp
    /\ OtherCachesIdle

CacheFrame == UNCHANGED <<recipeCache, featuredCache, keyVars, ledgerVars, facadeVars, workerVars, rankVars>>

Set(key, data, ttl) ==
    /\ searchCache' = SetCache(searchCache, key, data, ttl, now)
    /\ cacheOp' = [NoOp EXCEPT !.name = "set", !.key = key, !.data = data,
                               !.expiresAt = now + ttl,
                               !.evicted = LruEvicted(searchCache, now)]
    /\ UNCHANGED now
    /\ CacheFrame

SetDefaultTtl(key, data) == Set(key, data, defaultTTL)

Get(key) ==
    /\ searchCache' = GetCache(searchCache, key, now)
    /\ cacheOp' = [NoOp EXCEPT !.name = "get", !.key = key,
                               !.ret = GetResult(searchCache, key, now),
                               !.afterSet = (cacheOp.name = "set" /\ cacheOp.key = key)]
    /\ UNCHANGED now
    /\ CacheFrame

\* has(key): get(key) !== null
Has(key) ==
    /\ searchCache' = GetCache(searchCache, key, now)
    /\ cacheOp' = [NoOp EXCEPT !.name = "has", !.key = key,
                               !.count = IF GetResult(searchCache, key, now) # Null
                                         THEN 1 ELSE 0]
    /\ UNCHANGED now
    /\ CacheFrame

InvalidatePattern(pattern) ==
    /\ searchCache' = InvalidateCache(searchCache, pattern)
    /\ cacheOp' = [NoOp EXCEPT !.name = "invalidatePattern", !.key = pattern,
                               !.count = Cardinality(KeysToDelete(searchCache, pattern))]
    /\ UNCHANGED now
    /\ CacheFrame

Clear ==
    /\ searchCache # <<>>
    /\ searchCache' = <<>>
    /\ cacheOp' = [NoOp EXCEPT !.name = "clear"]
    /\ UNCHANGED now
    /\ CacheFrame

\* the clock advances; no CacheManager call returns
Tick ==
    /\ now < MaxNow
    /\ now' = now + 1
    /\ UNCHANGED <<searchCache, cacheOp>>
    /\ CacheFrame

NextCache ==
    \/ \E k \in ActiveKeys : \E d \in Values : \E ttl \in TTLInputs : Set(k, d, ttl)
    \/ \E k \in ActiveKeys : \E d \in Values : SetDefaultTtl(k, d)
    \/ \E k \in ActiveKeys : Get(k)
    \/ \E k \in ActiveKeys : Has(k)
    \/ \E p \in Patterns : InvalidatePattern(p)
    \/ Clear
    \/ Tick

SpecCache == InitCache /\ [][NextCache]_vars

NextCacheFull ==
    \/ \E k \in FullKeys : \E d \in FullValues : \E ttl \in FullTTLs : Set(k, d, ttl)
    \/ \E k \in FullKeys : \E d \in FullValues : SetDefaultTtl(k, d)
    \/ \E k \in FullKeys : Get(k)
    \/ \E k \in FullKeys : Has(k)
    \/ \E p \in FullPatterns : InvalidatePattern(p)
    \/ Clear
    \/ Tick

SpecCacheFull == InitCacheFull /\ [][NextCacheFull]_vars


-----------------------------------------------------------------------------
(* generateKey on its own: two parameter objects and the keys returned for them *)

Endpoints == {"complexSearch", "random"}
ParamNames == {"query", "type"}
ParamValues == {Str("a"), Str("a\",\"type\":\"a"), Str("1"), Num(1), Bool(TRUE),
                Undefined, JsNull, NaN}

\* the objects with properties among ParamNames, in every insertion order
ParamObjects ==
    {<<>>}
    \cup {<<Prop(n, v)>> : n \in ParamNames, v \in ParamValues}
    \cup {<<Prop(x[1], x[3]), Prop(x[2], x[4])>> :
            x \in {y \in ParamNames \X ParamNames \X ParamValues \X ParamValues :
                      y[1] # y[2]}}

InitKey ==
    /\ now = 0
    /\ searchCache = <<>>
    /\ recipeCache = <<>>
    /\ featuredCache = <<>>
    /\ cacheOp = NoOp
    /\ LedgerIdle
    /\ FacadeIdle
    /\ WorkerIdle
    /\ RankIdle
    /\ \E e \in Endpoints : \E a \in ParamObjects : \E b \in ParamObjects :
           keyIn = [endpoint |-> e, a |-> a, b |-> b]
    /\ keyOut = <<>>

GenerateKeys ==
    /\ keyOut = <<>>
    /\ keyOut' = <<GenerateKey(keyIn.endpoint, keyIn.a),
                   GenerateKey(keyIn.endpoint, keyIn.b)>>
    /\ UNCHANGED <<now, cacheVars, ledgerVars, facadeVars, workerVars, rankVars, keyIn>>

NextKey == GenerateKeys

SpecKey == InitKey /\ [][NextKey]_vars

-----------------------------------------------------------------------------
(* APIUsageManager: the calls *)

LedgerStep == 12 * MsPerHour
MaxCalls == dailyLimit + MaxOver

InitLedger ==
    /\ now = 0
    /\ searchCache = <<>>
    /\ recipeCache = <<>>
    /\ featuredCache = <<>>
    /\ cacheOp = NoOp
    /\ KeyIdle
    /\ FacadeIdle
    /\ WorkerIdle
    /\ RankIdle
    /\ storage \in {NoItem, CorruptItem}
    /\ storageOk \in BOOLEAN
    /\ ledgerOp = NoLedgerOp

LedgerFrame == UNCHANGED <<now, cacheVars, keyVars, facadeVars, workerVars, rankVars, storageOk>>

RecordCall(endpoint, success) ==
    /\ success => getUsageData(storage, storageOk, now).calls < MaxCalls
    /\ (success /\ endpoint # "/complexSearch") =>
           getUsageData(storage, storageOk, now).endpoints[endpoint] < MaxOtherCalls
    /\ ~success => getUsageData(storage, storageOk, now).errors < MaxErrors
    /\ storage' = recordCall(storage, storageOk, now, endpoint, success)
    /\ ledgerOp' = [NoLedgerOp EXCEPT !.name = "recordCall", !.endpoint = endpoint,
                        !.success = success,
                        !.data = recordCallData(storage, storageOk, now, endpoint, success)]
    /\ LedgerFrame

RecordCacheHit ==
    /\ getUsageData(storage, storageOk, now).cached < MaxCached
    /\ storage' = recordCacheHit(storage, storageOk, now)
    /\ ledgerOp' = [NoLedgerOp EXCEPT !.name = "recordCacheHit",
                        !.data = recordCacheHitData(storage, storageOk, now)]
    /\ LedgerFrame

GetUsageStats ==
    /\ ledgerOp' = [NoLedgerOp EXCEPT !.name = "getUsageStats",
                        !.stats = getUsageStats(storage, storageOk, now)]
    /\ UNCHANGED storage
    /\ LedgerFrame

CanMakeCall ==
    /\ ledgerOp' = [NoLedgerOp EXCEPT !.name = "canMakeCall",
                        !.can = canMakeCall(storage, storageOk, now)]
    /\ UNCHANGED storage
    /\ LedgerFrame

GetUsageTrends ==
    /\ ledgerOp' = [NoLedgerOp EXCEPT !.name = "getUsageTrends",
                        !.trends = getUsageTrends(storage, storageOk, now)]
    /\ UNCHANGED storage
    /\ LedgerFrame

ResetUsage ==
    /\ storage' = resetUsage(storage, storageOk, now)
    /\ ledgerOp' = [NoLedgerOp EXCEPT !.name = "resetUsage",
                        !.data = createNewUsageData(now)]
    /\ LedgerFrame

\* the clock advances; no APIUsageManager call returns
LedgerTick ==
    /\ now + LedgerStep <= MaxDay * MsPerDay
    /\ now' = now + LedgerStep
    /\ ledgerOp' = NoLedgerOp
    /\ UNCHANGED <<cacheVars, keyVars, facadeVars, workerVars, rankVars, storage, storageOk>>

NextLedger ==
    \/ \E e \in EndpointNames : \E ok \in BOOLEAN : RecordCall(e, ok)
    \/ RecordCacheHit
    \/ GetUsageStats
    \/ CanMakeCall
    \/ GetUsageTrends
    \/ ResetUsage
    \/ LedgerTick

SpecLedger == InitLedger /\ [][NextLedger]_vars

-----------------------------------------------------------------------------
(* RecipeService: the calls *)

FacadeStep == 20 * 60 * 1000

RecipeIds == {716429}
RandomNumbers == {1}
IngredientLists == {<<"rice">>}

\* the record a day of successful searches leaves in localStorage
UsedUp(calls) ==
    [createNewUsageData(0) EXCEPT !.calls = calls, !.endpoints["/complexSearch"] = calls]

Init ==
    /\ now = 0
    /\ searchCache = <<>>
    /\ recipeCache = <<>>
    /\ featuredCache = <<>>
    /\ cacheOp = NoOp
    /\ KeyIdle
    /\ storage \in {NoItem, Item(UsedUp(dailyLimit))}
    /\ storageOk = TRUE
    /\ ledgerOp = NoLedgerOp
    /\ apiKeyEnv \in {"", "demo-key", "0123456789abcdef0123456789abcdef"}
    /\ pending = [s \in Slots |-> IdleCall]
    /\ netCount = 0
    /\ facadeOp = NoFacadeOp
    /\ WorkerIdle
    /\ RankIdle

FacadeFrame ==
    UNCHANGED <<now, recipeCache, featuredCache, cacheOp, keyVars, storageOk, ledgerOp,
                apiKeyEnv, workerVars, rankVars>>

\* every call under way has seen another call start
Touched == [t \in Slots |-> [pending[t] EXCEPT !.alone = FALSE]]

\* the record of a call that settles now
Settled(name, key, path, result, first) ==
    [name |-> name, key |-> key, path |-> path, result |-> result, first |-> first,
     at |-> now]

\* the calls under way are told apart by a slot; a new call takes the lowest free one
FreeSlot(s) == pending[s].pc = "idle" /\ \A t \in Slots : t < s => pending[t].pc # "idle"

\* mutant: the configuration and the limit are checked before the cache
SearchRecipesChecksFirst(s, query, options) ==
    /\ FreeSlot(s)
    /\ LET cacheKey == SearchKeys(query, options)
           cached == GetResult(searchCache, cacheKey, now)
           afterGet == GetCache(searchCache, cacheKey, now)
       IN IF ~isApiConfigured(apiKeyEnv) \/ ~canMakeCall(storage, storageOk, now)
          THEN /\ facadeOp' = Settled("searchRecipes", cacheKey,
                                      IF ~isApiConfigured(apiKeyEnv)
                                      THEN "unconfigured" ELSE "limit",
                                      Resolved(LocalRecipes(query, options)), FALSE)
               /\ pending' = Touched
               /\ UNCHANGED <<searchCache, storage, netCount>>
          ELSE /\ searchCache' = afterGet
               /\ IF cached # Null
                  THEN /\ getUsageData(storage, storageOk, now).cached < MaxCached
                       /\ storage' = recordCacheHit(storage, storageOk, now)
                       /\ facadeOp' = Settled("searchRecipes", cacheKey, "cache",
                                              Resolved(cached.data), FALSE)
                       /\ pending' = Touched
                       /\ UNCHANGED netCount
                  ELSE /\ netCount < MaxNet
                       /\ netCount' = netCount + 1
                       /\ pending' = [Touched EXCEPT ![s] =
                              [pc |-> "awaiting", op |-> "searchRecipes", query |-> query,
                               options |-> options, key |-> cacheKey,
                               fresh |-> /\ getUsageData(storage, storageOk, now).calls = 0
                                         /\ getUsageData(storage, storageOk, now).cached = 0
                                         /\ afterGet = <<>>,
                               alone |-> \A t \in Slots \ {s} : pending[t].pc = "idle"]]
                       /\ UNCHANGED <<storage, facadeOp>>
    /\ FacadeFrame

\* searchRecipes(query, options), up to its return or its await
SearchRecipes(s, query, options) ==
    /\ FreeSlot(s)
    /\ LET cacheKey == SearchKeys(query, options)
           cached == GetResult(searchCache, cacheKey, now)
           afterGet == GetCache(searchCache, cacheKey, now)
       IN /\ searchCache' = afterGet
          /\ IF cached # Null
             THEN \* an array is truthy, empty or not
                  /\ getUsageData(storage, storageOk, now).cached < MaxCached
                  /\ storage' = recordCacheHit(storage, storageOk, now)
                  /\ facadeOp' = Settled("searchRecipes", cacheKey, "cache",
                                         Resolved(cached.data), FALSE)
                  /\ pending' = Touched
                  /\ UNCHANGED netCount
             ELSE IF ~isApiConfigured(apiKeyEnv)
             THEN /\ facadeOp' = Settled("searchRecipes", cacheKey, "unconfigured",
                                         Resolved(LocalRecipes(query, options)), FALSE)
                  /\ pending' = Touched
                  /\ UNCHANGED <<storage, netCount>>
             ELSE IF ~canMakeCall(storage, storageOk, now)
             THEN /\ facadeOp' = Settled("searchRecipes", cacheKey, "limit",
                                         Resolved(LocalRecipes(query, options)), FALSE)
                  /\ pending' = Touched
                  /\ UNCHANGED <<storage, netCount>>
             ELSE /\ netCount < MaxNet
                  /\ netCount' = netCount + 1
                  /\ pending' = [Touched EXCEPT ![s] =
                         [pc |-> "awaiting", op |-> "searchRecipes", query |-> query,
                          options |-> options, key |-> cacheKey,
                          fresh |-> /\ getUsageData(storage, storageOk, now).calls = 0
                                    /\ getUsageData(storage, storageOk, now).cached = 0
                                    /\ afterGet = <<>>,
                          alone |-> \A t \in Slots \ {s} : pending[t].pc = "idle"]]
                  /\ UNCHANGED <<storage, facadeOp>>
    /\ FacadeFrame

\* searchRecipes: the response of the network arrives
SearchRecipesResponse(s, outcome) ==
    /\ pending[s].pc = "awaiting"
    /\ pending[s].op = "searchRecipes"
    /\ LET call == pending[s] IN
       IF outcome.kind = "ok"
       THEN LET results == OrEmpty(outcome) IN
            /\ storage' = recordCall(storage, storageOk, now, "/complexSearch", TRUE)
            /\ searchCache' = SetCache(searchCache, call.key, results,
                                       CACHE_TTL.SEARCH_RESULTS, now)
            /\ facadeOp' = Settled("searchRecipes", call.key, "network",
                                   Resolved(results), call.fresh /\ call.alone)
       ELSE /\ storage' = recordCall(storage, storageOk, now, "/complexSearch", FALSE)
            /\ UNCHANGED searchCache
            /\ facadeOp' =
                   IF outcome.status = 402 \/ outcome.status = 429
                   THEN Settled("searchRecipes", call.key, "fallback",
                                Resolved(LocalRecipes(call.query, call.options)), FALSE)
                   ELSE Settled("searchRecipes", call.key, "error",
                                Rejected(ErrorMessage(outcome.status)), FALSE)
    /\ pending' = [pending EXCEPT ![s] = IdleCall]
    /\ UNCHANGED netCount
    /\ FacadeFrame

\* getRecipeDetails, getRandomRecipes and findRecipesByIngredients, up to the throw
\* or the await
NoFallbackCall(s, name) ==
    /\ FreeSlot(s)
    /\ IF ~isApiConfigured(apiKeyEnv)
       THEN /\ facadeOp' = Settled(name, "", "unconfigured", Rejected(ConfigError), FALSE)
            /\ pending' = Touched
            /\ UNCHANGED netCount
       ELSE /\ netCount < MaxNet
            /\ netCount' = netCount + 1
            /\ pending' = [Touched EXCEPT ![s] = [IdleCall EXCEPT !.pc = "awaiting",
                                                                  !.op = name]]
            /\ UNCHANGED facadeOp
    /\ UNCHANGED <<searchCache, storage>>
    /\ FacadeFrame

\* the response of the network arrives: the call resolves with value, or rejects
\* with the error caught
NoFallbackResponse(s, name, outcome, value) ==
    /\ pending[s].pc = "awaiting"
    /\ pending[s].op = name
    /\ facadeOp' = IF outcome.kind = "ok"
                   THEN Settled(name, "", "network", value, FALSE)
                   ELSE Settled(name, "", "error",
                                Rejected(ErrorMessage(outcome.status)), FALSE)
    /\ pending' = [pending EXCEPT ![s] = IdleCall]
    /\ UNCHANGED <<searchCache, storage, netCount>>
    /\ FacadeFrame

GetRecipeDetails(s, recipeId) == NoFallbackCall(s, "getRecipeDetails")

\* response.data.title is read: a response without data is a TypeError
GetRecipeDetailsResponse(s, outcome) ==
    NoFallbackResponse(s, "getRecipeDetails", outcome,
        IF outcome.defined THEN Resolved(outcome.results)
        ELSE Rejected("Cannot read properties of undefined (reading 'title')"))

GetRandomRecipes(s, number) == NoFallbackCall(s, "getRandomRecipes")

\* return response.data.recipes || []
GetRandomRecipesResponse(s, outcome) ==
    NoFallbackResponse(s, "getRandomRecipes", outcome, Resolved(OrEmpty(outcome)))

FindRecipesByIngredients(s, ingredients, options) ==
    NoFallbackCall(s, "findRecipesByIngredients")

\* return response.data || []
FindRecipesByIngredientsResponse(s, outcome) ==
    NoFallbackResponse(s, "findRecipesByIngredients", outcome, Resolved(OrEmpty(outcome)))

\* the object testConnection resolves with, as its success field (1 for true)
ConnectionResult(success) == Resolved(<<IF success THEN 1 ELSE 0>>)

\* testConnection(), up to its return or its await
TestConnection(s) ==
    /\ FreeSlot(s)
    /\ IF ~isApiConfigured(apiKeyEnv)
       THEN /\ facadeOp' = Settled("testConnection", "", "unconfigured",
                                   ConnectionResult(FALSE), FALSE)
            /\ pending' = Touched
            /\ UNCHANGED netCount
       ELSE /\ netCount < MaxNet
            /\ netCount' = netCount + 1
            /\ pending' = [Touched EXCEPT ![s] = [IdleCall EXCEPT !.pc = "awaiting",
                                                                  !.op = "testConnection"]]
            /\ UNCHANGED facadeOp
    /\ UNCHANGED <<searchCache, storage>>
    /\ FacadeFrame

\* testConnection: the response of the network arrives; an error is caught and
\* reported in the object returned
TestConnectionResponse(s, outcome) ==
    /\ pending[s].pc = "awaiting"
    /\ pending[s].op = "testConnection"
    /\ facadeOp' = IF outcome.kind = "ok"
                   THEN Settled("testConnection", "", "network",
                                ConnectionResult(TRUE), FALSE)
                   ELSE Settled("testConnection", "", "error",
                                ConnectionResult(FALSE), FALSE)
    /\ pending' = [pending EXCEPT ![s] = IdleCall]
    /\ UNCHANGED <<searchCache, storage, netCount>>
    /\ FacadeFrame

\* the clock advances
FacadeTick ==
    /\ now < MaxTicks * FacadeStep
    /\ now' = now + FacadeStep
    /\ UNCHANGED <<cacheVars, keyVars, ledgerVars, facadeVars, workerVars, rankVars>>

Next ==
    \/ \E s \in Slots : \E args \in SearchArgs : SearchRecipes(s, args[1], args[2])
    \/ \E s \in Slots : \E outcome \in Outcomes : SearchRecipesResponse(s, outcome)
    \/ \E s \in Slots : \E recipeId \in RecipeIds : GetRecipeDetails(s, recipeId)
    \/ \E s \in Slots : \E outcome \in Outcomes : GetRecipeDetailsResponse(s, outcome)
    \/ \E s \in Slots : \E number \in RandomNumbers : GetRandomRecipes(s, number)
    \/ \E s \in Slots : \E outcome \in Outcomes : GetRandomRecipesResponse(s, outcome)
    \/ \E s \in Slots : \E ingredients \in IngredientLists :
           FindRecipesByIngredients(s, ingredients, <<>>)
    \/ \E s \in Slots : \E outcome \in Outcomes : FindRecipesByIngredientsResponse(s, outcome)
    \/ \E s \in Slots : TestConnection(s)
    \/ \E s \in Slots : \E outcome \in Outcomes : TestConnectionResponse(s, outcome)
    \/ FacadeTick

Spec == Init /\ [][Next]_vars

\* the same calls on a day that has one request left
InitQuota ==
    /\ now = 0
    /\ searchCache = <<>>
    /\ recipeCache = <<>>
    /\ featuredCache = <<>>
    /\ cacheOp = NoOp
    /\ KeyIdle
    /\ WorkerIdle
    /\ RankIdle
    /\ storage = Item(UsedUp(dailyLimit - 1))
    /\ storageOk = TRUE
    /\ ledgerOp = NoLedgerOp
    /\ apiKeyEnv \in {"", "0123456789abcdef0123456789abcdef"}
    /\ pending = [s \in Slots |-> IdleCall]
    /\ netCount = 0
    /\ facadeOp = NoFacadeOp

SpecQuota == InitQuota /\ [][Next]_vars

Entries(cache) == {cache[i] : i \in 1..Len(cache)}

-----------------------------------------------------------------------------
(* Claims on the CacheManager *)

\* C1: a get(key) that follows set(key, value, ttl), whatever time has passed in
\* between, returns value while now <= expiresAt = (time of set) + ttl and null once
\* now > expiresAt
C1_SetThenGet ==
    [][(cacheOp.name = "set" /\ cacheOp'.name = "get" /\ cacheOp'.key = cacheOp.key)
        => cacheOp'.ret = IF now' <= cacheOp.expiresAt
                          THEN Some(cacheOp.data) ELSE Null]_vars

\* a get right after a set returned the value, and another one returned null
\* because the entry had expired in between
C1_Witness ==
    /\ cacheOp.name = "get"
    /\ cacheOp.afterSet
    /\ cacheOp.ret = Null
    /\ ~MapHas(searchCache, cacheOp.key)
    /\ now = MaxNow

\* C2: right after every set the Map holds at most maxCacheSize entries
C2_Capacity == cacheOp.name = "set" => Len(searchCache) <= maxCacheSize

\* a set found the Map at capacity with nothing expired and trimmed it
C2_Witness ==
    /\ cacheOp.name = "set"
    /\ cacheOp.evicted # {}
    /\ Len(searchCache) = maxCacheSize - RemoveCount + 1

\* C3: the unexpired entries a set evicts are the least recently accessed: each has
\* lastAccessed <= that of every entry that was there before the set and is still
\* there
C3_LruFirst ==
    cacheOp.name = "set" =>
        \A e \in cacheOp.evicted : \A s \in Entries(searchCache) :
            s.key # cacheOp.key => e.lastAccessed <= s.lastAccessed

\* the entry inserted first was refreshed by a get and survived a set that evicted
\* entries inserted after it
C3_Witness ==
    /\ cacheOp.name = "set"
    /\ cacheOp.key # CacheKey(1)
    /\ cacheOp.evicted # {}
    /\ \E s \in Entries(searchCache) :
           /\ s.key = CacheKey(1)
           /\ s.createdAt = 0
           /\ s.data = <<1>>
           /\ s.lastAccessed > 0
           /\ \A e \in cacheOp.evicted : e.createdAt = 0 /\ e.lastAccessed < s.lastAccessed


-----------------------------------------------------------------------------
(* Claims on generateKey *)

\* the property/value pairs an object holds
Pairs(obj) == {<<obj[i].name, obj[i].value>> : i \in 1..Len(obj)}

\* JSON.stringify writes all of these as null
WrittenAsNull == {JsNull, NaN}

\* C4 as stated: objects holding the same property/value pairs get equal keys, and
\* objects that differ in the value of some property, defined in at least one of
\* them, get different keys
C4_AsStated ==
    keyOut # <<>> =>
        /\ Pairs(keyIn.a) = Pairs(keyIn.b) => keyOut[1] = keyOut[2]
        /\ (\E n \in ParamNames : PropValue(keyIn.a, n) # PropValue(keyIn.b, n))
              => keyOut[1] # keyOut[2]

\* C4 amended: objects holding the same property/value pairs get equal keys, and
\* objects that differ in the value of some property get different keys unless
\* JSON.stringify writes both values of every such property as null
C4_KeyCanonical ==
    keyOut # <<>> =>
        /\ Pairs(keyIn.a) = Pairs(keyIn.b) => keyOut[1] = keyOut[2]
        /\ (\E n \in ParamNames :
               /\ PropValue(keyIn.a, n) # PropValue(keyIn.b, n)
               /\ ~({PropValue(keyIn.a, n), PropValue(keyIn.b, n)} \subseteq WrittenAsNull))
              => keyOut[1] # keyOut[2]

\* keys were generated for two objects with the same two properties in opposite
\* orders, and they are equal
C4_Witness ==
    /\ keyOut # <<>>
    /\ Len(keyIn.a) = 2
    /\ Pairs(keyIn.a) = Pairs(keyIn.b)
    /\ keyIn.a # keyIn.b
    /\ keyOut[1] = keyOut[2]

-----------------------------------------------------------------------------
(* APIUsageManager: properties *)

\* what a call of the APIUsageManager reads as today's record
SeenData == getUsageData(storage, storageOk, now)

StaleRecord == storage.kind = "item" /\ storage.data.date # ToDateString(now)

ZeroedToday(data) ==
    /\ data.date = ToDateString(now)
    /\ data.calls = 0
    /\ data.errors = 0
    /\ data.cached = 0
    /\ \A e \in EndpointNames : data.endpoints[e] = 0

\* C5: whenever the stored record carries another date than today, getUsageStats
\* and canMakeCall see a zeroed record dated today (calls = 0, canMakeCall() true),
\* and recordCall and recordCacheHit count from that zeroed record, so that the
\* first successful recordCall of the day leaves calls = 1.
C5_DayRollover ==
    StaleRecord =>
        /\ LET stats == getUsageStats(storage, storageOk, now) IN
               /\ stats.calls = 0
               /\ stats.date = ToDateString(now)
               /\ stats.errors = 0
               /\ stats.cached = 0
               /\ \A e \in EndpointNames : stats.endpoints[e] = 0
               /\ stats.canMakeCall = TRUE
        /\ canMakeCall(storage, storageOk, now) = TRUE
        /\ \A e \in EndpointNames :
               /\ recordCallData(storage, storageOk, now, e, TRUE) =
                      [createNewUsageData(now) EXCEPT !.calls = 1, !.endpoints[e] = 1]
               /\ recordCallData(storage, storageOk, now, e, FALSE) =
                      [createNewUsageData(now) EXCEPT !.errors = 1]
               /\ storageOk =>
                      /\ recordCall(storage, storageOk, now, e, TRUE).kind = "item"
                      /\ recordCall(storage, storageOk, now, e, TRUE).data.calls = 1
                      /\ recordCall(storage, storageOk, now, e, TRUE).data.date =
                             ToDateString(now)
        /\ recordCacheHitData(storage, storageOk, now) =
               [createNewUsageData(now) EXCEPT !.cached = 1]
        /\ ledgerOp.name = "getUsageStats" =>
               ledgerOp.stats.calls = 0 /\ ledgerOp.stats.canMakeCall
        /\ ledgerOp.name = "canMakeCall" => ledgerOp.can

\* a record of yesterday with calls = dailyLimit has just been read by getUsageStats,
\* which reported calls = 0
C5_Witness ==
    /\ storageOk
    /\ StaleRecord
    /\ storage.data.date + 1 = ToDateString(now)
    /\ storage.data.calls = dailyLimit
    /\ ledgerOp.name = "getUsageStats"
    /\ ledgerOp.stats.calls = 0
    /\ ledgerOp.stats.canMakeCall

\* C6: canMakeCall() is false exactly when the calls of today's record have reached
\* dailyLimit, getUsageStats().canMakeCall has the value of canMakeCall(), and
\* getUsageStats().remaining is max(0, dailyLimit - calls).
C6_CanMakeCall ==
    LET stats == getUsageStats(storage, storageOk, now) IN
    /\ dailyLimit = 150
    /\ (canMakeCall(storage, storageOk, now) = FALSE) <=> (SeenData.calls >= dailyLimit)
    /\ stats.canMakeCall = canMakeCall(storage, storageOk, now)
    /\ stats.calls = SeenData.calls
    /\ stats.remaining = IF dailyLimit - SeenData.calls > 0
                         THEN dailyLimit - SeenData.calls ELSE 0
    /\ ledgerOp.name = "canMakeCall" => (ledgerOp.can <=> SeenData.calls < dailyLimit)
    /\ ledgerOp.name = "getUsageStats" =>
           (ledgerOp.stats.canMakeCall <=> SeenData.calls < dailyLimit)

\* canMakeCall() has just returned false on a record that stands at the limit
C6_Witness ==
    /\ ledgerOp.name = "canMakeCall"
    /\ ledgerOp.can = FALSE
    /\ storage.kind = "item"
    /\ SeenData.calls = dailyLimit

\* C7: getUsageStats().status is "critical" exactly when calls / dailyLimit >= 0.95,
\* "warning" exactly when 0.8 <= calls / dailyLimit < 0.95, and "normal" otherwise,
\* below, at and beyond the limit.
C7_Status ==
    LET status == getUsageStats(storage, storageOk, now).status
        calls == SeenData.calls
    IN /\ status \in {"normal", "warning", "critical"}
       /\ status = "critical" <=> 20 * calls >= 19 * dailyLimit
       /\ status = "warning" <=> (5 * calls >= 4 * dailyLimit /\ 20 * calls < 19 * dailyLimit)
       /\ status = "normal" <=> 5 * calls < 4 * dailyLimit
       /\ ledgerOp.name = "getUsageStats" => ledgerOp.stats.status = status

\* getUsageStats() has just reported "warning" at exactly 0.8 of the limit
C7_Witness ==
    /\ ledgerOp.name = "getUsageStats"
    /\ ledgerOp.stats.status = "warning"
    /\ 5 * ledgerOp.stats.calls = 4 * dailyLimit

-----------------------------------------------------------------------------
(* RecipeService: properties *)

\* the options that carry no filter of getLocalRecipes
Unfiltered(options) ==
    PropValue(options, "category") = Undefined /\ PropValue(options, "vegetarian") = Undefined

C9_Scenario ==
    [][/\ \A s \in Slots : \A args \in SearchArgs :
              (/\ pending[s].pc = "idle"
               /\ pending'[s].pc = "awaiting"
               /\ SearchRecipes(s, args[1], args[2]))
              => isApiConfigured(apiKeyEnv) /\ netCount' = netCount + 1
       /\ \A s \in Slots : \A outcome \in {o \in Outcomes : o.kind = "ok"} :
              (/\ pending[s].fresh
               /\ pending[s].alone
               /\ storageOk
               /\ SearchRecipesResponse(s, outcome))
              => /\ netCount' = netCount
                 /\ getUsageData(storage', storageOk', now').calls = 1
                 /\ getUsageData(storage', storageOk', now').cached = 0
                 /\ facadeOp'.result = Resolved(OrEmpty(outcome))
                 /\ GetResult(searchCache', pending[s].key, now') =
                        Some(facadeOp'.result.value)
                 /\ facadeOp'.first
       /\ \A s \in Slots : \A args \in SearchArgs :
              (/\ facadeOp.name = "searchRecipes"
               /\ facadeOp.path = "network"
               /\ facadeOp.first
               /\ facadeOp.at = now
               /\ storageOk
               /\ facadeOp.key = SearchKeys(args[1], args[2])
               /\ SearchRecipes(s, args[1], args[2]))
              => /\ facadeOp'.path = "cache"
                 /\ facadeOp'.result = facadeOp.result
                 /\ pending'[s].pc = "idle"
                 /\ netCount' = netCount
                 /\ getUsageData(storage', storageOk', now').calls = 1
                 /\ getUsageData(storage', storageOk', now').cached = 1
      ]_vars

\* searchRecipes("pasta", {number: 5}) has been answered from the cache after the
\* one request ever issued succeeded: calls = 1, cached = 1
C9_Witness ==
    /\ facadeOp.name = "searchRecipes"
    /\ facadeOp.path = "cache"
    /\ facadeOp.key = SearchKeys("pasta", <<Prop("number", Num(5))>>)
    /\ facadeOp.result = Resolved(<<716429>>)
    /\ netCount = 1
    /\ Len(searchCache) = 1
    /\ storage.kind = "item"
    /\ SeenData.calls = 1
    /\ SeenData.cached = 1
    /\ SeenData.errors = 0

\* the credential is unset, the placeholder, or too short
Unconfigured ==
    \/ apiKeyEnv = ""
    \/ apiKeyEnv = "YOUR_SPOONACULAR_API_KEY"
    \/ Len(apiKeyEnv) <= 10

\* C10: with the credential not configured, getRecipeDetails, getRandomRecipes and
\* findRecipesByIngredients each reject with the configuration error, hand no
\* request to the network, and leave the three caches and the ledger as they were.
C10_NoFallback ==
    [][\A s \in Slots :
          (/\ Unconfigured
           /\ \/ \E recipeId \in RecipeIds : GetRecipeDetails(s, recipeId)
              \/ \E number \in RandomNumbers : GetRandomRecipes(s, number)
              \/ \E ingredients \in IngredientLists :
                     FindRecipesByIngredients(s, ingredients, <<>>))
          => /\ facadeOp'.name \in {"getRecipeDetails", "getRandomRecipes",
                                    "findRecipesByIngredients"}
             /\ facadeOp'.result = Rejected(ConfigError)
             /\ netCount' = netCount
             /\ \A t \in Slots : pending'[t].pc = pending[t].pc
             /\ UNCHANGED <<searchCache, recipeCache, featuredCache, storage>>
      ]_vars

\* findRecipesByIngredients has just rejected with the configuration error under a
\* key too short to count as configured
C10_Witness ==
    /\ facadeOp.name = "findRecipesByIngredients"
    /\ facadeOp.result = Rejected(ConfigError)
    /\ apiKeyEnv = "demo-key"
    /\ netCount = 0

\* the TTL an operation's results are to be cached with (CACHE_TTL has no entry of
\* its own for findRecipesByIngredients; its results are search results)
OperationTTL(name) ==
    CASE name = "searchRecipes" -> CACHE_TTL.SEARCH_RESULTS
      [] name = "getRecipeDetails" -> CACHE_TTL.RECIPE_DETAILS
      [] name = "getRandomRecipes" -> CACHE_TTL.RANDOM
      [] name = "findRecipesByIngredients" -> CACHE_TTL.SEARCH_RESULTS
      [] OTHER -> 0

\* this step starts, in slot s, the call that settled last once more
RepeatsLast(s) ==
    \/ /\ facadeOp.name = "searchRecipes"
       /\ \E args \in SearchArgs :
              /\ SearchKeys(args[1], args[2]) = facadeOp.key
              /\ SearchRecipes(s, args[1], args[2])
    \/ /\ facadeOp.name = "getRecipeDetails"
       /\ \E recipeId \in RecipeIds : GetRecipeDetails(s, recipeId)
    \/ /\ facadeOp.name = "getRandomRecipes"
       /\ \E number \in RandomNumbers : GetRandomRecipes(s, number)
    \/ /\ facadeOp.name = "findRecipesByIngredients"
       /\ \E ingredients \in IngredientLists :
              FindRecipesByIngredients(s, ingredients, <<>>)

\* C11 (as stated): for each of searchRecipes, getRecipeDetails, getRandomRecipes and
\* findRecipesByIngredients, a call that repeats, within the operation's TTL, the
\* call that last resolved from the network is answered from the cache with the
\* same result and hands no request to the network.
C11_AsStated ==
    [][\A s \in Slots :
          (/\ facadeOp.path = "network"
           /\ facadeOp.result.kind = "resolved"
           /\ now <= facadeOp.at + OperationTTL(facadeOp.name)
           /\ RepeatsLast(s))
          => /\ netCount' = netCount
             /\ pending'[s].pc = "idle"
             /\ facadeOp'.name = facadeOp.name
             /\ facadeOp'.result = facadeOp.result
      ]_vars

\* the response of the network to the request of the call in slot s arrives
AnyResponse(s, outcome) ==
    \/ SearchRecipesResponse(s, outcome)
    \/ GetRecipeDetailsResponse(s, outcome)
    \/ GetRandomRecipesResponse(s, outcome)
    \/ FindRecipesByIngredientsResponse(s, outcome)
    \/ TestConnectionResponse(s, outcome)

\* the record of today as read after the step
SeenDataNext == getUsageData(storage', storageOk', now')

\* C12 (as stated): whenever the network request of a call of searchRecipes,
\* getRecipeDetails, getRandomRecipes, findRecipesByIngredients or testConnection
\* completes, a success adds one to calls and to the count of one endpoint and
\* leaves errors, and a failure adds one to errors and leaves calls and the
\* endpoint counts.
C12_AsStated ==
    [][\A s \in Slots : \A outcome \in Outcomes :
          (pending[s].pc = "awaiting" /\ AnyResponse(s, outcome))
          => IF outcome.kind = "ok"
             THEN /\ SeenDataNext.calls = SeenData.calls + 1
                  /\ SeenDataNext.errors = SeenData.errors
                  /\ \E e \in EndpointNames :
                         /\ SeenDataNext.endpoints[e] = SeenData.endpoints[e] + 1
                         /\ \A f \in EndpointNames \ {e} :
                                SeenDataNext.endpoints[f] = SeenData.endpoints[f]
             ELSE /\ SeenDataNext.errors = SeenData.errors + 1
                  /\ SeenDataNext.calls = SeenData.calls
                  /\ SeenDataNext.endpoints = SeenData.endpoints
      ]_vars

\* C13: when the request of searchRecipes fails with status 402 or 429, the failed
\* call is recorded (errors + 1, calls and the endpoint counts as they were) and the
\* call resolves with the result of getLocalRecipes for its query and options.
C13_QuotaSignal ==
    [][\A s \in Slots : \A outcome \in {Err(402), Err(429)} :
          (/\ pending[s].pc = "awaiting"
           /\ pending[s].op = "searchRecipes"
           /\ storageOk
           /\ SearchRecipesResponse(s, outcome))
          => /\ SeenDataNext.errors = SeenData.errors + 1
             /\ SeenDataNext.calls = SeenData.calls
             /\ SeenDataNext.endpoints = SeenData.endpoints
             /\ facadeOp'.name = "searchRecipes"
             /\ facadeOp'.result.kind = "resolved"
             /\ facadeOp'.result.value =
                    LocalRecipes(pending[s].query, pending[s].options)
             /\ pending'[s].pc = "idle"
             /\ netCount' = netCount
      ]_vars

\* searchRecipes("chicken", {}) has resolved with the seven local chicken recipes
\* after its one request failed, with errors = 1 and calls = 0 on the record
C13_Witness ==
    /\ facadeOp.name = "searchRecipes"
    /\ facadeOp.path = "fallback"
    /\ facadeOp.key = SearchKeys("chicken", <<>>)
    /\ facadeOp.result = Resolved(<<63, 11, 12, 13, 15, 18, 19>>)
    /\ netCount = 1
    /\ storage.kind = "item"
    /\ SeenData.errors = 1
    /\ SeenData.calls = 0

\* the responses that are failures without a quota signal
OtherFailures == {o \in Outcomes : o.kind = "error" /\ o.status \notin {402, 429}}

C15_AsStated ==
    [][ToDateString(now') = ToDateString(now) => SeenDataNext.calls >= SeenData.calls]_vars

\* C15 (amended): over any step of recordCall, recordCacheHit, getUsageStats,
\* canMakeCall or getUsageTrends that stays on the same calendar day, the calls a
\* read sees do not decrease; resetUsage, with storage working, sets them to 0.
C15_CallsMonotone ==
    [][/\ (ToDateString(now') = ToDateString(now) /\ ~ResetUsage)
              => SeenDataNext.calls >= SeenData.calls
       /\ (ResetUsage /\ storageOk) => SeenDataNext.calls = 0
      ]_vars

\* getUsageTrends has just read, later on the day of its creation, a record with
\* two calls and a cache hit counted
C15_Witness ==
    /\ ledgerOp.name = "getUsageTrends"
    /\ storage.kind = "item"
    /\ SeenData.calls = 2
    /\ SeenData.cached = 1
    /\ now > SeenData.lastReset
    /\ ToDateString(now) = ToDateString(SeenData.lastReset)
    /\ ledgerOp.trends.cacheEfficiency = 33

\* C16: when localStorage throws on every getItem and setItem, or the stored item is
\* not JSON, every call returns normally: getUsageData yields a zeroed record dated
\* today, recordCall and recordCacheHit return that record with their one count
\* added, getUsageStats().calls = 0 and canMakeCall() is true; and while
\* localStorage throws, nothing is ever stored, so that every read sees an empty
\* ledger.
C16_StorageFailure ==
    LET fresh == createNewUsageData(now)
        stats == getUsageStats(storage, storageOk, now)
    IN /\ (~storageOk \/ storage.kind = "corrupt") =>
              /\ getUsageData(storage, storageOk, now) = fresh
              /\ ZeroedToday(getUsageData(storage, storageOk, now))
              /\ stats.calls = 0
              /\ stats.remaining = dailyLimit
              /\ stats.canMakeCall
              /\ canMakeCall(storage, storageOk, now)
              /\ recordCacheHitData(storage, storageOk, now) = [fresh EXCEPT !.cached = 1]
              /\ \A e \in EndpointNames :
                     /\ recordCallData(storage, storageOk, now, e, TRUE) =
                            [fresh EXCEPT !.calls = 1, !.endpoints[e] = 1]
                     /\ recordCallData(storage, storageOk, now, e, FALSE) =
                            [fresh EXCEPT !.errors = 1]
       /\ ~storageOk =>
              /\ storage.kind # "item"
              /\ recordCacheHit(storage, storageOk, now) = storage
              /\ resetUsage(storage, storageOk, now) = storage
              /\ \A e \in EndpointNames : \A success \in BOOLEAN :
                     recordCall(storage, storageOk, now, e, success) = storage
              /\ ledgerOp.name = "getUsageStats" =>
                     ledgerOp.stats.calls = 0 /\ ledgerOp.stats.canMakeCall
              /\ ledgerOp.name = "canMakeCall" => ledgerOp.can
              /\ ledgerOp.name \in {"recordCall", "recordCacheHit"} =>
                     ledgerOp.data.calls + ledgerOp.data.errors + ledgerOp.data.cached = 1

\* with localStorage throwing, recordCall(endpoint, true) has just returned a record
\* with calls = 1, and a read still sees calls = 0
C16_Witness ==
    /\ ~storageOk
    /\ ledgerOp.name = "recordCall"
    /\ ledgerOp.success
    /\ ledgerOp.data.calls = 1
    /\ SeenData.calls = 0
    /\ canMakeCall(storage, storageOk, now)

-----------------------------------------------------------------------------
(* Service worker: the install, activate and fetch handlers and the strategies *)
MaxFetches == 3

\* the content the server sends once the strategies have issued n fetches; the entries
\* of an earlier version of the worker hold content 0, those of install content 1
BodyOf(fetchNo) == fetchNo + 1

OldShellUrl == UrlOf(Origin, "/index.html")

\* the requests of the fetch events
ApiRequest == Request("GET", "", "api.spoonacular.com", "/recipes/complexSearch")

ImageRequest == Request("GET", "image", "images.unsplash.com", "/photo-1631452180519")

ScriptImageRequest == Request("GET", "", Origin, "/icons/logo.PNG")

RecipePageRequest == Request("GET", "document", Origin, "/recipe/716429")

ShellRequest == Request("GET", "document", Origin, "/index.html")

\* a file of the application that the install step does not cache
ScriptRequest == Request("GET", "script", Origin, "/assets/index.js")

PostRequest == Request("POST", "", "api.spoonacular.com", "/recipes/complexSearch")

Requests == {ApiRequest, ImageRequest, ScriptImageRequest, RecipePageRequest, ShellRequest,
             ScriptRequest, PostRequest}

\* what CacheStorage holds when the worker is installed: nothing, or the namespaces of an
\* earlier version of the worker
PriorCaches ==
    {[name \in {} |-> NoEntries],
     ("recipe-finder-v1.0.0" :> (OldShellUrl :> ServerResponse(200, 0)))
        @@ (RECIPES_CACHE :> (Url(RecipePageRequest) :> ServerResponse(200, 0)))
        @@ ("api-cache-v0" :> NoEntries),
     (API_CACHE :> (Url(ApiRequest) :> ServerResponse(200, 0)))
        @@ (IMAGES_CACHE :> (Url(ImageRequest) :> ServerResponse(200, 0)))
        @@ ("images-cache-v0" :> (Url(ImageRequest) :> ServerResponse(200, 0)))}

\* what fetch(request) settles with
Answer(status) == [failed |-> FALSE, status |-> status]

Failure == [failed |-> TRUE, status |-> 0]

FetchOutcomes == {Answer(200), Answer(404), Failure}

InitWorker ==
    /\ now = 0
    /\ searchCache = <<>>
    /\ recipeCache = <<>>
    /\ featuredCache = <<>>
    /\ cacheOp = NoOp
    /\ KeyIdle
    /\ LedgerIdle
    /\ FacadeIdle
    /\ RankIdle
    /\ swPhase = "parsed"
    /\ swCaches \in PriorCaches
    /\ swNames = {}
    /\ swPending = [s \in WorkerSlots |-> IdleRun]
    /\ swFetches = 0
    /\ swOp = NoWorkerOp
    /\ swMessage = NoMessage

\* what the install, activate and fetch handlers leave alone
WorkerFrame ==
    UNCHANGED <<now, cacheVars, keyVars, ledgerVars, facadeVars, rankVars, swMessage>>

\* cache.addAll(urls): every response is stored, under the URL of its request
AddAll(caches, cacheName, urls, response) ==
    LET added == {UrlOf(Origin, urls[i]) : i \in 1..Len(urls)}
    IN  [caches EXCEPT ![cacheName] =
            [u \in DOMAIN caches[cacheName] \cup added |->
                IF u \in added THEN response ELSE caches[cacheName][u]]]

\* the install handler; ok: every URL of urlsToCache was fetched with an ok response
Install(ok) ==
    /\ swPhase = "parsed"
    /\ LET opened == CachesOpen(CachesOpen(CachesOpen(CachesOpen(swCaches, CACHE_NAME),
                                                      RECIPES_CACHE), IMAGES_CACHE),
                                API_CACHE)
       IN  IF ok
           THEN /\ swCaches' = AddAll(opened, CACHE_NAME, urlsToCache, ServerResponse(200, 1))
                /\ swPhase' = "installed"
           ELSE /\ swCaches' = opened
                /\ swPhase' = "redundant"
    /\ swOp' = [NoWorkerOp EXCEPT !.name = "install"]
    /\ UNCHANGED <<swNames, swPending, swFetches>>
    /\ WorkerFrame

\* the activate handler, up to the names caches.keys() resolves with
ActivateKeys ==
    /\ swPhase = "installed"
    /\ swNames' = DOMAIN swCaches
    /\ swPhase' = "activating"
    /\ UNCHANGED <<swCaches, swPending, swFetches, swOp>>
    /\ WorkerFrame

\* mutant: every namespace but the app shell's is deleted
NamesToDeleteAllButShell(cacheNames) == {cacheName \in cacheNames : cacheName # CACHE_NAME}

\* the names the activate handler passes to caches.delete
NamesToDelete(cacheNames) == {cacheName \in cacheNames : cacheName \notin KnownCaches}

\* the activate handler, from the names on
ActivateDelete ==
    /\ swPhase = "activating"
    /\ swCaches' = CachesDelete(swCaches, NamesToDelete(swNames))
    /\ swPhase' = "activated"
    /\ swOp' = [NoWorkerOp EXCEPT !.name = "activate"]
    /\ UNCHANGED <<swNames, swPending, swFetches>>
    /\ WorkerFrame

FreeWorkerSlot(s) ==
    swPending[s].pc = "idle" /\ \A t \in WorkerSlots : t < s => swPending[t].pc # "idle"

Run(pc, strategy, cacheName, request) ==
    [pc |-> pc, strategy |-> strategy, cacheName |-> cacheName, request |-> request]

WorkerSettled(name, request, cacheName, source, result) ==
    [name |-> name, request |-> request, cacheName |-> cacheName, source |-> source,
     result |-> result]

\* the response of the server to the fetch of a run
ResponseTo(outcome, fetchNo) == ServerResponse(outcome.status, BodyOf(fetchNo))

\* mutant: a response is stored only where the request has no entry yet
PutIfOkOnce(caches, cacheName, request, response, putOk) ==
    IF IsOk(response) /\ putOk /\ ~Matches(caches, cacheName, request)
    THEN CachePut(caches, cacheName, Url(request), response)
    ELSE caches

\* if (response.ok) cache.put(request, response.clone()); putOk: the write succeeds
PutIfOk(caches, cacheName, request, response, putOk) ==
    IF IsOk(response) /\ putOk
    THEN CachePut(caches, cacheName, Url(request), response)
    ELSE caches

\* cacheFirstStrategy(request, cacheName), up to its return or its await of fetch
CacheFirstStart(s, request, cacheName) ==
    LET opened == CachesOpen(swCaches, cacheName)
    IN  /\ swCaches' = opened
        /\ IF Matches(opened, cacheName, request)
           THEN /\ swOp' = WorkerSettled("cacheFirst", request, cacheName, "cache",
                                         Fulfilled(Matched(opened, cacheName, request)))
                /\ UNCHANGED <<swPending, swFetches>>
           ELSE /\ swFetches < MaxFetches
                /\ swFetches' = swFetches + 1
                /\ swPending' = [swPending EXCEPT ![s] =
                                    Run("fetching", "cacheFirst", cacheName, request)]
                /\ UNCHANGED swOp

\* cacheFirstStrategy, from the settling of fetch on
CacheFirstResponse(s, outcome, putOk) ==
    LET run == swPending[s]
        response == ResponseTo(outcome, swFetches)
    IN  /\ run.pc = "fetching"
        /\ run.strategy = "cacheFirst"
        /\ swPending' = [swPending EXCEPT ![s] = IdleRun]
        /\ IF outcome.failed
           THEN /\ swOp' = WorkerSettled("cacheFirst", run.request, run.cacheName,
                                         "failure", PlaceholderFor(run.request))
                /\ UNCHANGED swCaches
           ELSE /\ swCaches' = PutIfOk(swCaches, run.cacheName, run.request, response, putOk)
                /\ swOp' = WorkerSettled("cacheFirst", run.request, run.cacheName,
                                         "network", Fulfilled(response))
        /\ UNCHANGED <<swPhase, swNames, swFetches>>
        /\ WorkerFrame

\* networkFirstStrategy(request, cacheName), up to its await of fetch
NetworkFirstStart(s, request, cacheName) ==
    /\ swFetches < MaxFetches
    /\ swFetches' = swFetches + 1
    /\ swPending' = [swPending EXCEPT ![s] =
                        Run("fetching", "networkFirst", cacheName, request)]
    /\ UNCHANGED <<swCaches, swOp>>

\* mutant: the cache is not consulted when the fetch fails
networkFirstFallbackOffline(caches, cacheName, request) == Fulfilled(OfflineResponse)

\* the catch block of networkFirstStrategy
networkFirstFallback(caches, cacheName, request) ==
    IF Matches(caches, cacheName, request)
    THEN Fulfilled(Matched(caches, cacheName, request))
    ELSE Fulfilled(OfflineResponse)

\* networkFirstStrategy, from the settling of fetch on
NetworkFirstResponse(s, outcome, putOk) ==
    LET run == swPending[s]
        response == ResponseTo(outcome, swFetches)
        opened == CachesOpen(swCaches, run.cacheName)
    IN  /\ run.pc = "fetching"
        /\ run.strategy = "networkFirst"
        /\ swPending' = [swPending EXCEPT ![s] = IdleRun]
        /\ IF outcome.failed
           THEN /\ swCaches' = opened
                /\ swOp' = WorkerSettled("networkFirst", run.request, run.cacheName,
                              IF Matches(opened, run.cacheName, run.request)
                              THEN "cache" ELSE "offline",
                              networkFirstFallback(opened, run.cacheName, run.request))
           ELSE /\ swCaches' = IF IsOk(response)
                               THEN PutIfOk(opened, run.cacheName, run.request, response,
                                            putOk)
                               ELSE swCaches
                /\ swOp' = WorkerSettled("networkFirst", run.request, run.cacheName,
                                         "network", Fulfilled(response))
        /\ UNCHANGED <<swPhase, swNames, swFetches>>
        /\ WorkerFrame

\* staleWhileRevalidateStrategy(request, cacheName), up to its return or its await of
\* the promise of the fetch
StaleWhileRevalidateStart(s, request, cacheName) ==
    LET opened == CachesOpen(swCaches, cacheName)
    IN  /\ swFetches < MaxFetches
        /\ swFetches' = swFetches + 1
        /\ swCaches' = opened
        /\ IF Matches(opened, cacheName, request)
           THEN /\ swOp' = WorkerSettled("staleWhileRevalidate", request, cacheName,
                                         "cache",
                                         Fulfilled(Matched(opened, cacheName, request)))
                /\ swPending' = [swPending EXCEPT ![s] =
                                    Run("revalidating", "staleWhileRevalidate", cacheName,
                                        request)]
           ELSE /\ swPending' = [swPending EXCEPT ![s] =
                                    Run("fetching", "staleWhileRevalidate", cacheName,
                                        request)]
                /\ UNCHANGED swOp

\* staleWhileRevalidateStrategy, from the settling of fetch on
StaleWhileRevalidateResponse(s, outcome, putOk) ==
    LET run == swPending[s]
        response == ResponseTo(outcome, swFetches)
    IN  /\ run.pc \in {"fetching", "revalidating"}
        /\ run.strategy = "staleWhileRevalidate"
        /\ swPending' = [swPending EXCEPT ![s] = IdleRun]
        /\ swCaches' = IF outcome.failed THEN swCaches
                       ELSE PutIfOk(swCaches, run.cacheName, run.request, response, putOk)
        /\ IF run.pc = "revalidating"
           THEN UNCHANGED swOp
           ELSE swOp' = WorkerSettled("staleWhileRevalidate", run.request, run.cacheName,
                                      IF outcome.failed THEN "failure" ELSE "network",
                                      IF outcome.failed THEN FulfilledNull
                                      ELSE Fulfilled(response))
        /\ UNCHANGED <<swPhase, swNames, swFetches>>
        /\ WorkerFrame

\* the fetch handler
FetchEvent(s, request) ==
    LET route == Route(request)
    IN  /\ swPhase = "activated"
        /\ FreeWorkerSlot(s)
        /\ CASE route.strategy = "cacheFirst" ->
                    CacheFirstStart(s, request, route.cacheName)
             [] route.strategy = "networkFirst" ->
                    NetworkFirstStart(s, request, route.cacheName)
             [] route.strategy = "staleWhileRevalidate" ->
                    StaleWhileRevalidateStart(s, request, route.cacheName)
             [] OTHER ->
                    /\ swOp' = WorkerSettled("none", request, "", "", Thrown)
                    /\ UNCHANGED <<swCaches, swPending, swFetches>>
        /\ UNCHANGED <<swPhase, swNames>>
        /\ WorkerFrame

NextWorker ==
    \/ \E ok \in BOOLEAN : Install(ok)
    \/ ActivateKeys
    \/ ActivateDelete
    \/ \E s \in WorkerSlots : \E request \in Requests : FetchEvent(s, request)
    \/ \E s \in WorkerSlots : \E outcome \in FetchOutcomes : \E putOk \in BOOLEAN :
           CacheFirstResponse(s, outcome, putOk)
    \/ \E s \in WorkerSlots : \E outcome \in FetchOutcomes : \E putOk \in BOOLEAN :
           NetworkFirstResponse(s, outcome, putOk)
    \/ \E s \in WorkerSlots : \E outcome \in FetchOutcomes : \E putOk \in BOOLEAN :
           StaleWhileRevalidateResponse(s, outcome, putOk)

SpecWorker == InitWorker /\ [][NextWorker]_vars

-----------------------------------------------------------------------------
(* Service worker: the message handler *)

MaxCommands == 2

CommandTypes == {"CLEAR_CACHE", "CACHE_RECIPE", "GET_CACHE_INFO"}

MessageFrame == UNCHANGED <<now, cacheVars, keyVars, ledgerVars, facadeVars, rankVars>>

\* event.ports[0]?.postMessage(value)
PostMessage(message, value) ==
    [message EXCEPT !.pc = "replied", !.replies = @ + 1, !.reply = value]

\* new Response(JSON.stringify(recipe), {headers: {'Content-Type': 'application/json'}})
RecipeResponse(recipe) ==
    [ServerResponse(200, recipe.id) EXCEPT !.contentType = "application/json"]

\* `/recipe/${recipe.id}`, resolved against the origin of the worker
RecipeUrl(recipe) == UrlOf(Origin, "/recipe/" \o ToString(recipe.id))

\* the message handler, up to the first await of the helper it calls; the client posts
\* to registration.active
Message(type, recipe) ==
    /\ swPhase \in {"activating", "activated"}
    /\ swMessage.pc \in {"idle", "replied", "rejected"}
    /\ swMessage.received < MaxCommands
    /\ LET message == [NoMessage EXCEPT !.type = type,
                                        !.received = swMessage.received + 1]
       IN  CASE type = "CLEAR_CACHE" ->
                    /\ swMessage' = [message EXCEPT !.pc = "deleting",
                                                    !.names = DOMAIN swCaches]
                    /\ UNCHANGED swCaches
             [] type = "CACHE_RECIPE" ->
                    /\ swMessage' = [message EXCEPT !.pc = "putting", !.recipe = recipe]
                    /\ swCaches' = CachesOpen(swCaches, RECIPES_CACHE)
             [] type = "GET_CACHE_INFO" ->
                    /\ swMessage' = [message EXCEPT !.pc = "counting",
                                                    !.names = DOMAIN swCaches]
                    /\ UNCHANGED swCaches
    /\ UNCHANGED <<swPhase, swNames, swPending, swFetches, swOp>>
    /\ MessageFrame

\* clearAllCaches, from the names on, and the reply
ClearAllCaches ==
    /\ swMessage.pc = "deleting"
    /\ swCaches' = CachesDelete(swCaches, swMessage.names)
    /\ swMessage' = PostMessage(swMessage, Success)
    /\ UNCHANGED <<swPhase, swNames, swPending, swFetches, swOp>>
    /\ MessageFrame

\* cacheRecipe: await cache.put(`/recipe/${recipe.id}`, recipeResponse) settles; putOk:
\* the write succeeds. A write that fails rejects cacheRecipe, whose promise has a then
\* and no catch
CacheRecipePut(putOk) ==
    /\ swMessage.pc = "putting"
    /\ IF ~putOk
       THEN /\ swMessage' = [swMessage EXCEPT !.pc = "rejected"]
            /\ UNCHANGED swCaches
       ELSE /\ swCaches' = CachePut(swCaches, RECIPES_CACHE, RecipeUrl(swMessage.recipe),
                                    RecipeResponse(swMessage.recipe))
            /\ swMessage' = IF swMessage.recipe.image # ""
                            THEN [swMessage EXCEPT !.pc = "prefetching"]
                            ELSE PostMessage(swMessage, Success)
    /\ UNCHANGED <<swPhase, swNames, swPending, swFetches, swOp>>
    /\ MessageFrame

\* cacheRecipe: the fetch of the image settles; whatever is thrown in the try is caught
CacheRecipeImage(outcome, putOk) ==
    /\ swMessage.pc = "prefetching"
    /\ swCaches' =
           IF outcome.failed \/ ~IsOk(ServerResponse(outcome.status, 0)) THEN swCaches
           ELSE IF ~putOk THEN CachesOpen(swCaches, IMAGES_CACHE)
           ELSE CachePut(CachesOpen(swCaches, IMAGES_CACHE), IMAGES_CACHE,
                         swMessage.recipe.image, ServerResponse(outcome.status, 0))
    /\ swMessage' = PostMessage(swMessage, Success)
    /\ UNCHANGED <<swPhase, swNames, swPending, swFetches, swOp>>
    /\ MessageFrame

\* getCacheInfo, from the names on, and the reply: caches.open creates the namespace
\* of a name deleted since
GetCacheInfo ==
    /\ swMessage.pc = "counting"
    /\ LET opened == [name \in DOMAIN swCaches \cup swMessage.names |->
                         IF CachesHas(swCaches, name) THEN swCaches[name] ELSE NoEntries]
       IN  /\ swCaches' = opened
           /\ swMessage' = PostMessage(swMessage,
                  Info([name \in swMessage.names |-> Cardinality(DOMAIN opened[name])]))
    /\ UNCHANGED <<swPhase, swNames, swPending, swFetches, swOp>>
    /\ MessageFrame

\* the steps in which a helper of the message handler goes on after an await
HelperStep ==
    \/ ClearAllCaches
    \/ \E putOk \in BOOLEAN : CacheRecipePut(putOk)
    \/ \E outcome \in FetchOutcomes : \E putOk \in BOOLEAN : CacheRecipeImage(outcome, putOk)
    \/ GetCacheInfo

NextMessages ==
    \/ \E ok \in BOOLEAN : Install(ok)
    \/ ActivateKeys
    \/ ActivateDelete
    \/ \E type \in CommandTypes : \E recipe \in Recipes : Message(type, recipe)
    \/ ClearAllCaches
    \/ \E putOk \in BOOLEAN : CacheRecipePut(putOk)
    \/ \E outcome \in FetchOutcomes : \E putOk \in BOOLEAN : CacheRecipeImage(outcome, putOk)
    \/ GetCacheInfo

\* every promise the worker awaits settles: a helper that can go on does
SpecMessages == InitWorker /\ [][NextMessages]_vars /\ WF_vars(HelperStep)


-----------------------------------------------------------------------------
(* Service worker: properties of the strategies *)

\* C17: a request routed to the network-first strategy is given no response before its
\* fetch has settled; when the fetch fails and the API namespace holds a response for the
\* request, the strategy resolves with that response; when the fetch fails and the
\* namespace holds none, it resolves (it does not reject) with the payload that has
\* offline: true and status 503; a response of the network is the result as it is
C17_NetworkFirst ==
    [][/\ \A s \in WorkerSlots :
              (swPending[s].pc = "idle" /\ swPending'[s].strategy = "networkFirst") =>
                  /\ Route(swPending'[s].request) =
                         [strategy |-> "networkFirst", cacheName |-> API_CACHE]
                  /\ swPending'[s].cacheName = API_CACHE
                  /\ swPending'[s].pc = "fetching"
                  /\ swFetches' = swFetches + 1
                  /\ swOp' = swOp
       /\ (swOp' # swOp /\ swOp'.name = "networkFirst") =>
              \E s \in WorkerSlots :
                  /\ swPending[s] = Run("fetching", "networkFirst", API_CACHE, swOp'.request)
                  /\ swPending'[s] = IdleRun
       /\ \A s \in WorkerSlots : \A outcome \in FetchOutcomes : \A putOk \in BOOLEAN :
              (swPending[s].strategy = "networkFirst"
                  /\ NetworkFirstResponse(s, outcome, putOk)) =>
                  LET request == swPending[s].request
                      held == Matches(swCaches, API_CACHE, request)
                  IN  /\ swOp'.name = "networkFirst"
                      /\ swOp'.request = request
                      /\ swOp'.result.settled = "fulfilled"
                      /\ ~swOp'.result.null
                      /\ ~outcome.failed =>
                             swOp'.result.response = ResponseTo(outcome, swFetches)
                      /\ (outcome.failed /\ held) =>
                             swOp'.result.response = swCaches[API_CACHE][Url(request)]
                      /\ (outcome.failed /\ ~held) =>
                             /\ swOp'.result.response.offline
                             /\ swOp'.result.response.status = 503
      ]_vars

\* the fetch of an API request has failed and the strategy has answered with the response
\* an earlier run had stored in the API namespace
C17_Witness ==
    /\ swOp.name = "networkFirst"
    /\ swOp.request = ApiRequest
    /\ swOp.source = "cache"
    /\ swOp.result = Fulfilled(ServerResponse(200, BodyOf(1)))
    /\ swFetches = 2

\* C18: a request routed to the stale-while-revalidate strategy whose URL the app-shell
\* namespace holds is answered with the held response in the step that starts its fetch,
\* before the fetch settles; when that background fetch brings an ok response and the
\* write succeeds, the response replaces the entry, so that the next request for the URL
\* is answered with it; a request whose URL the namespace does not hold is answered only
\* when its fetch settles, with the response of the network
C18_StaleWhileRevalidate ==
    [][/\ \A s \in WorkerSlots :
              (swPending[s].pc = "idle" /\ swPending'[s].strategy = "staleWhileRevalidate") =>
                  LET request == swPending'[s].request
                  IN  /\ Route(request) =
                             [strategy |-> "staleWhileRevalidate", cacheName |-> CACHE_NAME]
                      /\ swFetches' = swFetches + 1
                      /\ Matches(swCaches, CACHE_NAME, request) =>
                             /\ swPending'[s].pc = "revalidating"
                             /\ swOp' = WorkerSettled("staleWhileRevalidate", request,
                                            CACHE_NAME, "cache",
                                            Fulfilled(swCaches[CACHE_NAME][Url(request)]))
                      /\ ~Matches(swCaches, CACHE_NAME, request) =>
                             /\ swPending'[s].pc = "fetching"
                             /\ swOp' = swOp
       /\ \A s \in WorkerSlots : \A outcome \in FetchOutcomes : \A putOk \in BOOLEAN :
              (swPending[s].strategy = "staleWhileRevalidate"
                  /\ StaleWhileRevalidateResponse(s, outcome, putOk)) =>
                  LET request == swPending[s].request
                      response == ResponseTo(outcome, swFetches)
                  IN  /\ (~outcome.failed /\ IsOk(response) /\ putOk) =>
                             /\ Matches(swCaches', CACHE_NAME, request)
                             /\ swCaches'[CACHE_NAME][Url(request)] = response
                      /\ (swPending[s].pc = "fetching" /\ ~outcome.failed) =>
                             swOp' = WorkerSettled("staleWhileRevalidate", request,
                                                   CACHE_NAME, "network",
                                                   Fulfilled(response))
                      /\ swPending[s].pc = "revalidating" => swOp' = swOp
      ]_vars

\* a request for /index.html has been answered from the app-shell namespace with the
\* response that the background fetch of an earlier request had put in the place of the
\* installed one, while its own fetch is still under way
C18_Witness ==
    /\ swOp.name = "staleWhileRevalidate"
    /\ swOp.request = ShellRequest
    /\ swOp.source = "cache"
    /\ swOp.result = Fulfilled(ServerResponse(200, BodyOf(1)))
    /\ swFetches = 2
    /\ \E s \in WorkerSlots :
           swPending[s] = Run("revalidating", "staleWhileRevalidate", CACHE_NAME,
                              ShellRequest)

\* the requests the fetch handler gives to the cache-first strategy
CacheFirstRequests == {request \in Requests : Route(request).strategy = "cacheFirst"}

\* the cache-first strategy up to the failure of both the cache and the network: a held
\* response is the answer and no fetch is issued; on a miss a fetch is issued, and its
\* response is the answer and, when ok and the write succeeds, the new entry
CacheFirstServes ==
    /\ \A s \in WorkerSlots : \A request \in CacheFirstRequests :
           FetchEvent(s, request) =>
               LET cacheName == Route(request).cacheName
               IN  /\ cacheName \in {IMAGES_CACHE, RECIPES_CACHE}
                   /\ Matches(swCaches, cacheName, request) =>
                          /\ swOp' = WorkerSettled("cacheFirst", request, cacheName, "cache",
                                         Fulfilled(swCaches[cacheName][Url(request)]))
                          /\ swFetches' = swFetches
                          /\ swPending' = swPending
                   /\ ~Matches(swCaches, cacheName, request) =>
                          /\ swFetches' = swFetches + 1
                          /\ swPending'[s] = Run("fetching", "cacheFirst", cacheName, request)
                          /\ swOp' = swOp
    /\ \A s \in WorkerSlots : \A outcome \in FetchOutcomes : \A putOk \in BOOLEAN :
           (swPending[s].strategy = "cacheFirst" /\ ~outcome.failed
               /\ CacheFirstResponse(s, outcome, putOk)) =>
               LET run == swPending[s]
                   response == ResponseTo(outcome, swFetches)
               IN  /\ swOp' = WorkerSettled("cacheFirst", run.request, run.cacheName,
                                            "network", Fulfilled(response))
                   /\ (IsOk(response) /\ putOk) =>
                          /\ Matches(swCaches', run.cacheName, run.request)
                          /\ swCaches'[run.cacheName][Url(run.request)] = response

\* C19, as stated: the cache-first strategy serves as above, and when the fetch of a
\* request of the image class fails, nothing being held for it, the strategy resolves
\* with the synthesized placeholder
C19_AsStated ==
    [][/\ CacheFirstServes
       /\ \A s \in WorkerSlots : \A putOk \in BOOLEAN :
              (swPending[s].strategy = "cacheFirst"
                  /\ swPending[s].cacheName = IMAGES_CACHE
                  /\ CacheFirstResponse(s, Failure, putOk)) =>
                  swOp'.result = Fulfilled(PlaceholderImage)
      ]_vars

\* the requests whose handling a step starts, continues or settles
Handled ==
    {swPending[s].request : s \in {t \in WorkerSlots : /\ swPending[t] # swPending'[t]
                                                        /\ swPending[t].pc # "idle"}}
    \cup {swPending'[s].request : s \in {t \in WorkerSlots : /\ swPending[t] # swPending'[t]
                                                              /\ swPending'[t].pc # "idle"}}
    \cup (IF swOp' # swOp THEN {swOp'.request} ELSE {})

\* the namespaces a step creates, deletes or writes to
Written ==
    {name \in DOMAIN swCaches \cup DOMAIN swCaches' :
        \/ name \notin DOMAIN swCaches
        \/ name \notin DOMAIN swCaches'
        \/ swCaches[name] # swCaches'[name]}

-----------------------------------------------------------------------------
(* RecipeService.findRecipesByIngredientsAdvanced *)
MaxIngredients == 2

\* a string as the sequence of its characters
Chars(str) == [i \in 1..Len(str) |-> CharAt(str, i)]

\* toLowerCase and replace(/\s+/g, ''), on sequences of characters
LowerSeq(chars) == [i \in 1..Len(chars) |-> LowerChar(chars[i])]

StripSpaces(chars) == SelectSeq(chars, LAMBDA ch : ch # " ")

\* getRecipeIngredients: the names of the ingredients the table lists for a recipe id
ingredients ==
    (1 :> <<"paneer", "tomatoes", "onion", "heavy cream", "butter", "garam masala",
            "ginger-garlic paste">>)
    @@ (2 :> <<"spinach", "paneer", "onion", "tomatoes", "ginger-garlic paste",
               "green chilies", "cumin seeds">>)
    @@ (3 :> <<"black lentils", "kidney beans", "tomatoes", "heavy cream", "butter",
               "garam masala">>)
    @@ (11 :> <<"basmati rice", "chicken", "yogurt", "onions", "saffron", "biryani masala",
                "mint leaves">>)
    @@ (12 :> <<"chicken", "tomatoes", "heavy cream", "butter", "yogurt", "garam masala">>)
    @@ (21 :> <<"puri shells", "tamarind", "mint leaves", "coriander leaves", "black salt",
                "potatoes">>)
    @@ (31 :> <<"all-purpose flour", "yogurt", "garlic", "butter", "baking powder",
                "cilantro">>)
    @@ (41 :> <<"milk powder", "plain flour", "sugar", "cardamom", "rose water", "ghee">>)

\* ingredients[recipeId] || ingredients[1]
getRecipeIngredients(recipeId) ==
    IF recipeId \in DOMAIN ingredients THEN ingredients[recipeId] ELSE ingredients[1]

relatedGroups ==
    <<{"tomato", "tomatoes"}, {"onion", "onions"}, {"potato", "potatoes"},
      {"chicken", "poultry"}, {"oil", "ghee", "butter"}, {"yogurt", "curd", "dahi"},
      {"cilantro", "coriander", "dhania"}, {"green chili", "green chilies", "chili"},
      {"garam masala", "spice", "spices"}, {"rice", "basmati rice"},
      {"flour", "wheat flour", "maida"}, {"paneer", "cottage cheese"},
      {"coconut", "coconut milk"}, {"ginger garlic", "ginger", "garlic"}>>

\* areIngredientsRelated(ingredient1, ingredient2), on sequences of characters
areIngredientsRelated(ingredient1, ingredient2) ==
    LET ing1 == LowerSeq(ingredient1)
        ing2 == LowerSeq(ingredient2)
    IN  \/ Includes(ing1, ing2)
        \/ Includes(ing2, ing1)
        \/ \E g \in 1..Len(relatedGroups) :
               /\ \E item \in relatedGroups[g] : Includes(ing1, Chars(item))
               /\ \E item \in relatedGroups[g] : Includes(ing2, Chars(item))

\* the test of ingredientNames.find: a user ingredient against the name of a recipe
\* ingredient in lower case without white space
FindTest(userIngredient, name) ==
    LET recipeIng == StripSpaces(LowerSeq(Chars(name)))
        normalizedUserIngredient == StripSpaces(LowerSeq(Chars(userIngredient)))
    IN  \/ Includes(recipeIng, normalizedUserIngredient)
        \/ Includes(normalizedUserIngredient, recipeIng)
        \/ areIngredientsRelated(Chars(userIngredient), recipeIng)

\* the test of userIngredients.some: a user ingredient against the name of a recipe
\* ingredient in lower case
HasTest(userIng, name) == areIngredientsRelated(Chars(userIng), LowerSeq(Chars(name)))

essentialIngredients == {"salt", "oil", "water", "onion", "garlic", "ginger"}

isEssential(name) ==
    \E essential \in essentialIngredients : Includes(LowerSeq(Chars(name)), Chars(essential))

\* the ingredients a user names, and the ingredient lists of two recipes that are not in
\* the catalog
Vocabulary == {"tomato", "onion", "chicken", "Rice", "paneer", "spices", "heavycream",
               "butter", "salt", "mango"}

PlainIngredients == <<"tomato", "onion", "salt">>

SpicedIngredients == <<"tomato", "onion", "rare-spice-X", "rare-spice-Y">>

Range(seq) == {seq[i] : i \in 1..Len(seq)}

IngredientNames ==
    UNION {Range(ingredients[id]) : id \in DOMAIN ingredients}
        \cup Range(PlainIngredients) \cup Range(SpicedIngredients)

\* the three tests for the ingredients of the model, computed once
FindTable ==
    {<<userIngredient, name, FindTest(userIngredient, name)>> :
        userIngredient \in Vocabulary, name \in IngredientNames}

HasTable ==
    {<<userIng, name, HasTest(userIng, name)>> :
        userIng \in Vocabulary, name \in IngredientNames}

EssentialTable == {<<name, isEssential(name)>> : name \in IngredientNames}

\* matchedIngredients.length
MatchedCount(userIngredients, names) ==
    Cardinality({i \in 1..Len(userIngredients) :
                    \E j \in 1..Len(names) : <<userIngredients[i], names[j], TRUE>> \in FindTable})

\* essentialMissing.length, before the slice
MissingCount(userIngredients, names) ==
    Cardinality({j \in 1..Len(names) :
                    /\ <<names[j], FALSE>> \in EssentialTable
                    /\ \A i \in 1..Len(userIngredients) :
                           <<userIngredients[i], names[j], FALSE>> \in HasTable})

\* the score of a recipe with the ingredient names given, times userIngredients.length
\* (the score is a multiple of 1 / userIngredients.length)
Score(userIngredients, names) ==
    LET matched == MatchedCount(userIngredients, names)
        fewer == IF Len(names) <= 8 THEN 2 ELSE 0
    IN  Len(userIngredients) * (2 * matched - MissingCount(userIngredients, names) + fewer)
            + 5 * matched

\* one scored recipe: matchScore is held times userIngredients.length
Scored(recipe, userIngredients) ==
    LET names == getRecipeIngredients(recipe.id)
    IN  [id |-> recipe.id,
         matchScore |-> Max(0, Score(userIngredients, names)),
         matched |-> MatchedCount(userIngredients, names),
         missing |-> MissingCount(userIngredients, names),
         totalIngredients |-> Len(names)]

\* Array.prototype.sort((a, b) => b.matchScore - a.matchScore): a stable sort
SortByScore(recipes) ==
    LET n == Len(recipes)
        placed == {<<Cardinality({j \in 1..n :
                                    \/ recipes[j].matchScore > recipes[i].matchScore
                                    \/ /\ recipes[j].matchScore = recipes[i].matchScore
                                       /\ j < i}) + 1, i>> : i \in 1..n}
    IN  [k \in 1..n |-> recipes[(CHOOSE place \in placed : place[1] = k)[2]]]

\* findRecipesByIngredientsAdvanced(userIngredients); with no user ingredient every
\* score is NaN (0 / 0), and NaN > 0 is false
findRecipesByIngredientsAdvanced(userIngredients) ==
    IF userIngredients = <<>> THEN <<>>
    ELSE LET allRecipes == recipeDatabase
             scoredRecipes == [i \in 1..Len(allRecipes) |->
                                  Scored(allRecipes[i], userIngredients)]
         IN  SortByScore(SelectSeq(scoredRecipes, LAMBDA recipe : recipe.matchScore > 0))

UserIngredientLists == UNION {[1..n -> Vocabulary] : n \in 0..MaxIngredients}

InitRank ==
    /\ now = 0
    /\ searchCache = <<>>
    /\ cacheOp = NoOp
    /\ OtherCachesIdle

\* one call of findRecipesByIngredientsAdvanced(userIngredients)
FindRecipesByIngredientsAdvanced(userIngredients) ==
    /\ RankIdle
    /\ rankIn' = userIngredients
    /\ rankOut' = findRecipesByIngredientsAdvanced(userIngredients)
    /\ UNCHANGED <<now, cacheVars, keyVars, ledgerVars, facadeVars, workerVars>>

NextRank ==
    \E userIngredients \in UserIngredientLists :
        FindRecipesByIngredientsAdvanced(userIngredients)

SpecRank == InitRank /\ [][NextRank]_vars

-----------------------------------------------------------------------------
(* findRecipesByIngredientsAdvanced: properties *)

\* the recipe ingredients of the model whose name holds the name of an essential one
EssentialInCatalog ==
    {"onion", "onions", "garlic", "ginger-garlic paste", "black salt", "rose water", "salt"}

\* the score of the formula, times the number of user ingredients, for a recipe with the
\* ingredient names given, under one relation "the user ingredient matches the recipe
\* ingredient"
FormulaScore(userIngredients, names, table) ==
    LET n == Len(userIngredients)
        matchedCount ==
            Cardinality({i \in 1..n :
                            \E j \in 1..Len(names) :
                                <<userIngredients[i], names[j], TRUE>> \in table})
        unmatched ==
            Cardinality({j \in 1..Len(names) :
                            /\ names[j] \notin EssentialInCatalog
                            /\ \A i \in 1..n :
                                   <<userIngredients[i], names[j], FALSE>> \in table})
    IN  n * 2 * matchedCount + 5 * matchedCount
            + (IF Len(names) <= 8 THEN 2 * n ELSE 0) - n * unmatched

\* the result is the recipes of the catalog whose formula score is positive, each once
\* and with that score, in non-increasing order of score
RankedBy(table) ==
    /\ \A i \in 1..Len(recipeDatabase) :
           LET id == recipeDatabase[i].id
               score == FormulaScore(rankIn, getRecipeIngredients(id), table)
               places == {k \in 1..Len(rankOut) : rankOut[k].id = id}
           IN  IF score > 0
               THEN /\ Cardinality(places) = 1
                    /\ \A k \in places : rankOut[k].matchScore = score
               ELSE places = {}
    /\ \A k \in 1..(Len(rankOut) - 1) : rankOut[k].matchScore >= rankOut[k + 1].matchScore

\* C21, as stated: for every non-empty list of user ingredients there is one notion of a
\* user ingredient matching a recipe ingredient (the test that finds the matched user
\* ingredients, or the test that spares a recipe ingredient its penalty) under which the
\* result is the catalog scored by the formula, without the recipes of score <= 0 and in
\* non-increasing order of score; and for [tomato, onion] a recipe of tomato, onion and
\* salt scores above one of tomato, onion and two rare spices
C21_AsStated ==
    rankIn # <<>> =>
        /\ RankedBy(FindTable) \/ RankedBy(HasTable)
        /\ rankIn = <<"tomato", "onion">> =>
               Score(rankIn, PlainIngredients) > Score(rankIn, SpicedIngredients)

-----------------------------------------------------------------------------
(* RecipeService: properties of searchRecipes under concurrency and at the limit *)

FallbackPaths == {"unconfigured", "limit", "fallback"}

\* a searchRecipes call settles in this step with the result of getLocalRecipes
SettlesWithFallback ==
    /\ facadeOp' # facadeOp
    /\ facadeOp'.name = "searchRecipes"
    /\ facadeOp'.path \in FallbackPaths

\* C22, as stated: a step in which searchRecipes returns the result of getLocalRecipes
\* (key not configured, canMakeCall() false, or status 402/429) leaves the three caches
\* as they were
C22_AsStated ==
    [][SettlesWithFallback =>
           /\ searchCache' = searchCache
           /\ recipeCache' = recipeCache
           /\ featuredCache' = featuredCache
      ]_vars

\* C22: a step in which searchRecipes returns the result of getLocalRecipes writes to no
\* cache: recipeCache and featuredCache stay as they were, and searchCache either stays
\* as it was or loses the expired entry of the call's own key, which the cache check
\* deletes; and an entry enters searchCache, or gets new data, only in the step in which
\* the request of a searchRecipes call for its key succeeds, with the result of that
\* request as its data
C22_FallbackNotCached ==
    [][/\ SettlesWithFallback =>
              /\ recipeCache' = recipeCache
              /\ featuredCache' = featuredCache
              /\ \/ searchCache' = searchCache
                 \/ /\ MapHas(searchCache, facadeOp'.key)
                    /\ Expired(searchCache[MapIndex(searchCache, facadeOp'.key)], now)
                    /\ searchCache' = MapDelete(searchCache, facadeOp'.key)
       /\ \A i \in 1..Len(searchCache') :
              LET entry == searchCache'[i]
                  j == MapIndex(searchCache, entry.key)
              IN  (j = 0 \/ searchCache[j].data # entry.data
                         \/ searchCache[j].createdAt # entry.createdAt) =>
                      /\ facadeOp' = Settled("searchRecipes", entry.key, "network",
                                             Resolved(entry.data), facadeOp'.first)
                      /\ \E s \in Slots :
                             /\ pending[s].pc = "awaiting"
                             /\ pending[s].op = "searchRecipes"
                             /\ pending[s].key = entry.key
                             /\ pending'[s] = IdleCall
      ]_vars

\* the one request the day had left has succeeded and its result was cached; twenty
\* minutes later a searchRecipes call has found the entry expired, removed it, and
\* returned the local recipes because the limit is reached
C22_Witness ==
    /\ facadeOp.name = "searchRecipes"
    /\ facadeOp.path = "limit"
    /\ facadeOp.at = FacadeStep
    /\ netCount = 1
    /\ SeenData.calls = dailyLimit
    /\ searchCache = <<>>

\* a searchRecipes call other than that of slot s is awaiting its response for the key
TwinAwaiting(s, key) ==
    \E t \in Slots \ {s} :
        /\ pending[t].pc = "awaiting"
        /\ pending[t].op = "searchRecipes"
        /\ pending[t].key = key

\* C23: a searchRecipes call started while another call for the same key is awaiting its
\* response, the cache holding no valid entry for the key, the key configured and
\* canMakeCall() true, issues a request of its own and records no cache hit; and each
\* such call whose request succeeds adds one to calls, leaves cached as it was, and
\* leaves exactly one entry for the key in the cache, holding its own result
C23_NoCoalescing ==
    [][/\ \A s \in Slots : \A args \in SearchArgs :
              (/\ TwinAwaiting(s, SearchKeys(args[1], args[2]))
               /\ isApiConfigured(apiKeyEnv)
               /\ canMakeCall(storage, storageOk, now)
               /\ GetResult(searchCache, SearchKeys(args[1], args[2]), now) = Null
               /\ SearchRecipes(s, args[1], args[2])) =>
                  /\ netCount' = netCount + 1
                  /\ pending'[s].pc = "awaiting"
                  /\ pending'[s].key = SearchKeys(args[1], args[2])
                  /\ storage' = storage
                  /\ facadeOp' = facadeOp
       /\ \A s \in Slots : \A outcome \in Outcomes :
              (/\ pending[s].op = "searchRecipes"
               /\ outcome.kind = "ok"
               /\ SearchRecipesResponse(s, outcome)) =>
                  LET key == pending[s].key
                  IN  /\ SeenDataNext.calls = SeenData.calls + 1
                      /\ SeenDataNext.cached = SeenData.cached
                      /\ Cardinality({i \in 1..Len(searchCache') :
                                         searchCache'[i].key = key}) = 1
                      /\ searchCache'[MapIndex(searchCache', key)].data = OrEmpty(outcome)
                      /\ searchCache'[MapIndex(searchCache', key)].createdAt = now
      ]_vars

\* two searchRecipes("chicken") calls were started on an empty cache and an unused
\* ledger before either response arrived; both requests have succeeded, the second with
\* an empty list, which is what the one entry of the cache holds
C23_Witness ==
    /\ now = 0
    /\ netCount = 2
    /\ \A s \in Slots : pending[s].pc = "idle"
    /\ SeenData.calls = 2
    /\ SeenData.cached = 0
    /\ SeenData.errors = 0
    /\ facadeOp = Settled("searchRecipes", SearchKeys("chicken", <<>>), "network",
                          Resolved(<<>>), FALSE)
    /\ Len(searchCache) = 1
    /\ searchCache[1].key = SearchKeys("chicken", <<>>)
    /\ searchCache[1].data = <<>>

\* C24: searchRecipes checks the cache, then the configuration and the ledger, then calls
\* the network, then updates the ledger and writes the cache, and a step that ends the
\* call suppresses the later ones: a valid entry is returned, with cached one higher,
\* calls as it was and no request, whether or not the key is configured and canMakeCall()
\* is true; a call ended by the configuration or the limit check touches neither the
\* ledger nor the network; and no entry becomes visible in the cache in a step that does
\* not also show the ledger's calls one higher
C24_StepOrder ==
    [][/\ \A s \in Slots : \A args \in SearchArgs :
              LET cacheKey == SearchKeys(args[1], args[2])
                  cached == GetResult(searchCache, cacheKey, now)
              IN  /\ (cached # Null /\ SearchRecipes(s, args[1], args[2])) =>
                        /\ facadeOp' = Settled("searchRecipes", cacheKey, "cache",
                                               Resolved(cached.data), FALSE)
                        /\ SeenDataNext.cached = SeenData.cached + 1
                        /\ SeenDataNext.calls = SeenData.calls
                        /\ SeenDataNext.errors = SeenData.errors
                        /\ netCount' = netCount
                        /\ \A t \in Slots : pending'[t].pc = pending[t].pc
                        /\ searchCache' = searchCache
                  /\ (/\ cached = Null
                      /\ ~isApiConfigured(apiKeyEnv) \/ ~canMakeCall(storage, storageOk, now)
                      /\ SearchRecipes(s, args[1], args[2])) =>
                        /\ facadeOp'.path = IF ~isApiConfigured(apiKeyEnv)
                                            THEN "unconfigured" ELSE "limit"
                        /\ storage' = storage
                        /\ netCount' = netCount
                        /\ \A t \in Slots : pending'[t].pc = pending[t].pc
       /\ \A i \in 1..Len(searchCache') :
              (\A j \in 1..Len(searchCache) : searchCache[j] # searchCache'[i]) =>
                  /\ SeenDataNext.calls = SeenData.calls + 1
                  /\ facadeOp'.path = "network"
      ]_vars

\* the search that used the day's last request is repeated at once: canMakeCall() is
\* false and the call returns the cached results
C24_Witness ==
    /\ facadeOp.name = "searchRecipes"
    /\ facadeOp.path = "cache"
    /\ isApiConfigured(apiKeyEnv)
    /\ ~canMakeCall(storage, storageOk, now)
    /\ SeenData.calls = dailyLimit
    /\ SeenData.cached = 1
    /\ netCount = 1
    /\ Len(searchCache) = 1

\* the entries of cache stored under another key than key that are no longer in after
Removed(cache, after, key) ==
    LET keysAfter == {after[i].key : i \in 1..Len(after)}
    IN {e \in Entries(cache) : e.key # key /\ e.key \notin keysAfter}

\* C25: a set that finds fewer than maxCacheSize entries removes nothing; a set that
\* finds maxCacheSize entries or more removes every expired entry, and removes unexpired
\* entries only where maxCacheSize or more are left after that, and then
\* floor(0.3 * maxCacheSize) of them, those of lowest lastAccessed, so that the set of a
\* new key on a full cache with nothing expired leaves
\* maxCacheSize - floor(0.3 * maxCacheSize) + 1 entries
C25_TwoPhaseCleanup ==
    [][(/\ cacheOp'.name = "set"
        /\ cacheOp' # cacheOp \/ searchCache' # searchCache) =>
               LET key == cacheOp'.key
                   before == Entries(searchCache)
                   after == Entries(searchCache')
                   expired == {e \in before : now > e.expiresAt}
                   gone == Removed(searchCache, searchCache', key)
                   stays == {e \in before \ gone : e.key # key}
                   own == Cardinality({e \in before : e.key = key})
               IN  /\ Cardinality({e \in after : e.key = key}) = 1
                   /\ stays \subseteq after
                   /\ Len(searchCache) < maxCacheSize =>
                          /\ gone = {}
                          /\ Len(searchCache') = Len(searchCache) + 1 - own
                   /\ Len(searchCache) >= maxCacheSize =>
                          /\ \A e \in expired : e.key # key => e \in gone
                          /\ Cardinality(before \ expired) < maxCacheSize =>
                                 gone \subseteq expired
                          /\ Cardinality(before \ expired) >= maxCacheSize =>
                                 /\ Cardinality(gone) \in {RemoveCount - own, RemoveCount}
                                 /\ \A e \in gone : \A s \in stays :
                                        e.lastAccessed <= s.lastAccessed
                                 /\ own = 0 =>
                                        Len(searchCache') = maxCacheSize - RemoveCount + 1
      ]_vars

\* a set of a new key found the cache full with every other entry expired: the first
\* pass removed those and the second pass did not run
C25_Witness ==
    /\ cacheOp.name = "set"
    /\ cacheOp.key = CacheKey(maxCacheSize + 1)
    /\ cacheOp.evicted = {}
    /\ now = 2
    /\ Len(searchCache) = maxCacheSize \div 2 + 1
    /\ \A i \in 1..Len(searchCache) : ~Expired(searchCache[i], now)

\* C26 (as stated): whatever the interleaving of the searchRecipes calls under way, the
\* ledger's calls of the current day never exceeds dailyLimit
C26_AsStated == SeenData.calls <= dailyLimit

\* the searchRecipes calls whose response arrives in the step
SearchesDone ==
    {s \in Slots : /\ pending[s].pc = "awaiting"
                   /\ pending[s].op = "searchRecipes"
                   /\ pending'[s].pc = "idle"}

\* C27: with the storage working and within a day, whatever calls are under way, calls
\* goes up by one in each step in which the request of a searchRecipes call succeeds,
\* errors by one in each step in which such a request fails, and neither changes in any
\* other step: no update of the ledger is lost
C27_NoLostUpdates ==
    [][(storageOk /\ ToDateString(now') = ToDateString(now)) =>
          LET succeeded == {s \in SearchesDone : facadeOp'.path = "network"}
              failed == SearchesDone \ succeeded
          IN  /\ SeenDataNext.calls = SeenData.calls + Cardinality(succeeded)
              /\ SeenDataNext.errors = SeenData.errors + Cardinality(failed)
      ]_vars

\* two searchRecipes("chicken") calls were under way together on an unused ledger: the
\* request of one succeeded and filled the cache, then that of the other failed
C27_Witness ==
    /\ now = 0
    /\ netCount = 2
    /\ \A s \in Slots : pending[s].pc = "idle"
    /\ facadeOp.name = "searchRecipes"
    /\ facadeOp.key = SearchKeys("chicken", <<>>)
    /\ facadeOp.path = "error"
    /\ MapHas(searchCache, SearchKeys("chicken", <<>>))
    /\ SeenData.calls = 1
    /\ SeenData.errors = 1
    /\ SeenData.cached = 0

RECURSIVE SumOver(_, _)
SumOver(f, S) ==
    IF S = {} THEN 0
    ELSE LET e == CHOOSE x \in S : TRUE IN f[e] + SumOver(f, S \ {e})

\* the counts of the endpoints of a record add up to its calls
EndpointsAddUp(data) == SumOver(data.endpoints, DOMAIN data.endpoints) = data.calls

\* C28: in every state of the ledger reached from a fresh record by recordCall,
\* recordCacheHit, resetUsage and the passing of days, the counts of the endpoints add
\* up to calls, in the record a read sees and in the record stored; and recordCacheHit
\* and a failed recordCall leave calls and the count of every endpoint as they were
C28_EndpointSum ==
    /\ [](/\ EndpointsAddUp(SeenData)
          /\ storage.kind = "item" => EndpointsAddUp(storage.data))
    /\ [][/\ RecordCacheHit =>
                /\ SeenDataNext.calls = SeenData.calls
                /\ SeenDataNext.endpoints = SeenData.endpoints
                /\ EndpointsAddUp(ledgerOp'.data)
          /\ \A e \in EndpointNames : RecordCall(e, FALSE) =>
                /\ SeenDataNext.calls = SeenData.calls
                /\ SeenDataNext.endpoints = SeenData.endpoints
                /\ EndpointsAddUp(ledgerOp'.data)
         ]_vars

\* a request of each endpoint has succeeded, a cache hit was recorded, and a failed
\* request has just been recorded
C28_Witness ==
    /\ ledgerOp.name = "recordCall"
    /\ ~ledgerOp.success
    /\ storage.kind = "item"
    /\ storage.data.calls = 2
    /\ storage.data.endpoints["/complexSearch"] = 1
    /\ storage.data.endpoints["/random"] = 1
    /\ storage.data.errors = 1
    /\ storage.data.cached = 1
    /\ SeenData = storage.data

\* C29 (as stated): whatever the namespace holds and however the fetch settles, the
\* promise the stale-while-revalidate strategy hands to respondWith is fulfilled with a
\* response, never with null and never rejected
C29_AsStated ==
    swOp.name = "staleWhileRevalidate" =>
        /\ swOp.result.settled = "fulfilled"
        /\ ~swOp.result.null

\* C30 (as stated): every CLEAR_CACHE, CACHE_RECIPE and GET_CACHE_INFO command is
\* eventually answered with one message on its port, and with no more than one,
\* whatever the outcome of the cache and network operations of its helper
C30_AsStated ==
    /\ [](swMessage.replies <= 1)
    /\ (swMessage.pc \in {"deleting", "putting", "prefetching", "counting"})
           ~> (swMessage.pc = "replied" /\ swMessage.replies = 1)

====
